---- MODULE Spec2Model ----
(***************************************************************************)
(* Model of the theme-token SDK: schema validation (schema.ts), stylesheet *)
(* parsing (schema.ts), the format transformers (transform.ts), the asset  *)
(* loaders (apply.ts) and the theme fetcher (fetch.ts).                    *)
(*                                                                         *)
(* A JavaScript string is a sequence of atoms.  An atom is a single       *)
(* character ("{", ";", "-", " ", ...) or a run of characters that no     *)
(* regular expression of the program can split: a run of letters/digits   *)
(* ("background", "var", "a") or an opaque literal ("oklch(1 0 0)").      *)
(* Character classes of the program's regular expressions are predicates  *)
(* on atoms.                                                              *)
(***************************************************************************)
EXTENDS Integers, Sequences, FiniteSets, TLC

VARIABLES
    pc,       \* position of the caller: which operation has run
    edits,    \* number of edits applied to the input so far
    engine,   \* JavaScript engine running the code: "stack" or "tailcall"
    sheet,    \* the stylesheet under construction (blocks of declarations)
    css,      \* argument of parseCss: the stylesheet text
    pres,     \* value returned by parseCss
    lookup,   \* argument of resolveVar: the lookup table
    value,    \* argument of resolveVar
    r1,       \* resolveVar(value, lookup)
    r2,       \* resolveVar(r1, lookup)
    data,     \* argument of validateThemeToken
    vres,     \* validateThemeToken(data)
    json,     \* toJson(vres.theme, pretty)
    rres,     \* validateThemeToken(JSON.parse(json))
    fontCache,               \* Map origin -> LoadedFont
    fontLoadingPromises,     \* Map origin -> promise of a font load
    patternCache,            \* Map origin -> data URL
    patternLoadingPromises,  \* Map origin -> promise of a pattern load
    documentFonts,           \* document.fonts: the registered font faces
    promises,                \* the load promises created so far, by id
    calls,                   \* the calls of the loaders made so far
    rootStyle,               \* document.documentElement.style: the custom properties
    activeTheme,             \* useState: the active theme or null
    activeOrigin,            \* useState: the origin of the active theme or null
    isLoading,               \* useState: whether a theme is loading
    error,                   \* useState: the error of the last load or null
    localStorage,            \* localStorage: the value under the storage key or null
    loads,                   \* the loadTheme calls made so far
    wasReset                 \* resetTheme has returned and loadTheme was not called since

parseVars == <<sheet, css, pres>>
resolveVars == <<lookup, value, r1, r2>>
validateVars == <<data, vres, json, rres>>
loadVars == <<fontCache, fontLoadingPromises, patternCache, patternLoadingPromises,
              documentFonts, promises, calls>>
hookVars == <<activeTheme, activeOrigin, isLoading, error, localStorage, loads, wasReset>>
vars == <<pc, edits, engine, parseVars, resolveVars, validateVars, loadVars, rootStyle,
          hookVars>>

\* The module state of apply.ts when it has been loaded and nothing called.
NothingLoaded ==
    /\ fontCache = <<>> /\ fontLoadingPromises = <<>>
    /\ patternCache = <<>> /\ patternLoadingPromises = <<>>
    /\ documentFonts = {}
    /\ promises = <<>> /\ calls = <<>>

(***************************************************************************)
(* Bounds of the model.                                                    *)
(***************************************************************************)
\* Edits applied to an initial stylesheet.
MaxEdits == 1
\* Call-stack frames available to a recursion before the engine gives up.
\* It is larger than any acyclic chain of references the model can build.
StackLimit == 6

\* The longest theme name written, in atoms.
MaxName == 4

\* The calls of the asset loaders made in one run.
MaxCalls == 3

\* The calls of loadTheme made while a component is mounted.
MaxLoads == 2

(***************************************************************************)
(* Atoms and character classes.                                            *)
(***************************************************************************)
\* \s of the regular expressions, and the characters String.trim removes.
IsSpace(a) == a \in {" ", "\n"}

\* Atoms that are not in [a-z0-9-] (with the i flag: [A-Za-z0-9-]).
NonNameAtoms ==
    {" ", "\n", "{", "}", ":", ";", "(", ")", ",", ".", "@", "\"", "\\", "$", "!", "_",
     "oklch(1 0 0)", "oklch(0 0 0)", "0.5rem", " 1px", "function"}

\* [a-z0-9-] under the i flag.
IsNameChar(a) == a \notin NonNameAtoms

\* String.prototype.toLowerCase on an atom (the i flag on a literal).
ToLower(a) == IF a = "VAR" THEN "var" ELSE IF a = "T" THEN "t" ELSE a

\* Atoms with an upper-case letter.
UpperAtoms == {"VAR", "T"}

\* [a-z0-9], without the i flag.
IsLowerAlnum(a) == IsNameChar(a) /\ a # "-" /\ a \notin UpperAtoms

Min(S) == CHOOSE x \in S : \A y \in S : x <= y
Max(S) == CHOOSE x \in S : \A y \in S : x >= y

\* The sequence q with its items computed once, not at each use.
Once(q) == SubSeq(q, 1, Len(q))

\* The indices 1..n that satisfy Test, in ascending order.
IndicesOf(n, Test(_)) == SelectSeq([i \in 1..n |-> i], Test)

RECURSIVE SkipSpace(_, _)
\* First index j >= i with t[j] not a space, or Len(t)+1  (greedy \s*).
SkipSpace(t, i) == IF i <= Len(t) /\ IsSpace(t[i]) THEN SkipSpace(t, i + 1) ELSE i

\* First index j >= i with t[j] not a name character (greedy [a-z0-9-]*).
NameEnd(t, i) ==
    LET S == {j \in i..Len(t) : ~IsNameChar(t[j])}
    IN  IF S = {} THEN Len(t) + 1 ELSE Min(S)

\* First index j >= i with t[j] = a, or 0.
IndexOf(t, a, i) ==
    LET S == {j \in i..Len(t) : t[j] = a}
    IN  IF S = {} THEN 0 ELSE Min(S)

\* lit occurs in t at index i.
StartsAt(t, lit, i) ==
    /\ i >= 1
    /\ i + Len(lit) - 1 <= Len(t)
    /\ \A k \in 1..Len(lit) : t[i + k - 1] = lit[k]

\* String.prototype.startsWith
StartsWith(t, lit) == StartsAt(t, lit, 1)

\* String.prototype.trim
Trim(t) ==
    LET S == {j \in 1..Len(t) : ~IsSpace(t[j])}
    IN  IF S = {} THEN <<>>
        ELSE SubSeq(t, Min(S), CHOOSE x \in S : \A y \in S : y <= x)

RECURSIVE Concat(_)
\* Concatenation of a sequence of strings.
Concat(ss) ==
    IF ss = <<>> THEN <<>>
    ELSE IF Len(ss) = 1 THEN ss[1]
    ELSE LET half == Len(ss) \div 2
         IN  Concat(SubSeq(ss, 1, half)) \o Concat(SubSeq(ss, half + 1, Len(ss)))

RECURSIVE Join(_, _)
\* Array.prototype.join
Join(ss, sep) ==
    IF ss = <<>> THEN <<>>
    ELSE IF Len(ss) = 1 THEN ss[1]
    ELSE LET half == Len(ss) \div 2
         IN  Join(SubSeq(ss, 1, half), sep) \o sep \o Join(SubSeq(ss, half + 1, Len(ss)), sep)

(***************************************************************************)
(* JavaScript objects with string keys: a sequence of entries in          *)
(* insertion order, keys unique.                                          *)
(***************************************************************************)
Keys(o) == {o[i].k : i \in 1..Len(o)}
HasOwn(o, k) == \E i \in 1..Len(o) : o[i].k = k
Get(o, k) == o[CHOOSE i \in 1..Len(o) : o[i].k = k].v
\* A property name that is an array index: such properties are enumerated
\* first, in ascending order, whenever they were created.
IsIndexKey(k) == Len(k) = 1 /\ k[1] \in {"0", "1", "2", "3", "4", "5", "6", "7", "8", "9"}
KeyIndex(k) == CHOOSE n \in 0..9 : ToString(n) = k[1]
\* o[k] = v.  The entries of an object are kept in the order the engine
\* enumerates them: index keys in ascending order, then the other keys in
\* the order of their creation.
Put(o, k, v) ==
    IF HasOwn(o, k)
    THEN [i \in 1..Len(o) |-> IF o[i].k = k THEN [k |-> k, v |-> v] ELSE o[i]]
    ELSE IF IsIndexKey(k)
    THEN LET before == Cardinality({i \in 1..Len(o) :
                            IsIndexKey(o[i].k) /\ KeyIndex(o[i].k) < KeyIndex(k)})
         IN  SubSeq(o, 1, before) \o <<[k |-> k, v |-> v]>> \o SubSeq(o, before + 1, Len(o))
    ELSE Append(o, [k |-> k, v |-> v])
\* The entries es assigned to o one after the other: each key stands where
\* Put places its first assignment, with the value assigned last.
PutAll(o, es) ==
    LET all    == o \o es
        firsts == {i \in 1..Len(all) : \A j \in 1..(i - 1) : all[j].k # all[i].k}
        idx    == {i \in firsts : IsIndexKey(all[i].k)}
        rank   == [i \in firsts |->
                     IF i \in idx
                     THEN Cardinality({j \in idx : KeyIndex(all[j].k) < KeyIndex(all[i].k)}) + 1
                     ELSE Cardinality(idx) + Cardinality({j \in firsts \ idx : j < i}) + 1]
        last   == [i \in firsts |-> Max({j \in i..Len(all) : all[j].k = all[i].k})]
    IN  Once([n \in 1..Cardinality(firsts) |->
                LET i == CHOOSE x \in firsts : rank[x] = n
                IN  [k |-> all[i].k, v |-> all[last[i]].v]])
\* The object as a mapping, insertion order forgotten.
AsMap(o) == [k \in Keys(o) |-> Get(o, k)]

\* Property names every object inherits from Object.prototype, among the
\* names of the model: `k in o` and o[k] see them although o never set them.
ObjectPrototypeNames == {<<"constructor">>}
\* k in o
In(o, k) == HasOwn(o, k) \/ k \in ObjectPrototypeNames

(***************************************************************************)
(* schema.ts: constants.                                                   *)
(***************************************************************************)
THEME_TOKEN_SCHEMA_URL == <<"https", ":", "//themetoken", ".", "dev/v1/schema", ".", "json">>

White == <<"oklch(1 0 0)">>
Black == <<"oklch(0 0 0)">>

(***************************************************************************)
(* schema.ts: the regular expression                                       *)
(*   /--([a-z0-9-]+)\s*:\s*([^;]+);/gi                                      *)
(* of buildVarLookup and parseCssBlock.                                    *)
(***************************************************************************)
\* One attempt to match at index i.  [^;]+ is greedy and cannot cross a
\* ';', so the match ends at the first ';' after the colon; when only
\* spaces separate the colon from that ';', \s* gives one back to [^;]+.
VarRegexAt(t, i) ==
    LET n1   == NameEnd(t, i + 2)
        c    == SkipSpace(t, n1)
        v0   == SkipSpace(t, c + 1)
        semi == IndexOf(t, ";", c + 1)
        ok   == /\ StartsAt(t, <<"-", "-">>, i)
                /\ n1 > i + 2
                /\ c <= Len(t)
                /\ t[c] = ":"
                /\ semi > c + 1
    IN  IF ok
        THEN [ok |-> TRUE, name |-> SubSeq(t, i + 2, n1 - 1),
              value |-> IF v0 < semi THEN SubSeq(t, v0, semi - 1)
                        ELSE <<t[semi - 1]>>,
              next |-> semi + 1]
        ELSE [ok |-> FALSE, name |-> <<>>, value |-> <<>>, next |-> i + 1]

\* The matches from index i on, left to right, not overlapping.  A match
\* holds no ';' before the one that ends it, so the search comes to an
\* index where the expression matches exactly when it matches at no index
\* between the ';' before and that index.
VarRegexFrom(t, i) ==
    LET SearchFrom(p) == Max({i} \cup {j + 1 : j \in {x \in i..(p - 1) : t[x] = ";"}})
        Found(p) ==
            /\ p >= i
            /\ VarRegexAt(t, p).ok
            /\ \A q \in SearchFrom(p)..(p - 1) : ~VarRegexAt(t, q).ok
        at == IndicesOf(Len(t), LAMBDA p : Found(p))
    IN  Once([n \in 1..Len(at) |->
                [name |-> VarRegexAt(t, at[n]).name, value |-> VarRegexAt(t, at[n]).value]])

\* css.matchAll(varRegex)
MatchAllVars(t) == VarRegexFrom(t, 1)

(***************************************************************************)
(* schema.ts: buildVarLookup                                               *)
(***************************************************************************)
\* The loop of buildVarLookup over the matches ms, from the lookup acc: a
\* name that is in the lookup when its match comes is skipped.
BuildLookupFrom(ms, acc) ==
    LET first == IndicesOf(Len(ms), LAMBDA i :
                     /\ ~In(acc, ms[i].name)
                     /\ \A j \in 1..(i - 1) : ms[j].name # ms[i].name)
    IN  PutAll(acc, [n \in 1..Len(first) |->
                       [k |-> ms[first[n]].name, v |-> Trim(ms[first[n]].value)]])

\* The loop without the test: every match is assigned.
BuildLastFrom(ms, acc) ==
    PutAll(acc, [i \in 1..Len(ms) |-> [k |-> ms[i].name, v |-> Trim(ms[i].value)]])

\* A lookup in which the last declaration of a name wins.
buildVarLookupLastWins(fullCss) == BuildLastFrom(MatchAllVars(fullCss), <<>>)

buildVarLookup(fullCss) == BuildLookupFrom(MatchAllVars(fullCss), <<>>)

(***************************************************************************)
(* schema.ts: resolveVar                                                   *)
(*                                                                         *)
(* The outcome of a call is a record: kind "return" with the returned     *)
(* string, kind "throw" with the message of the exception, or kind        *)
(* "overflow" when the recursion needs more than StackLimit frames.       *)
(***************************************************************************)
Returned(s) == [kind |-> "return", val |-> s]
Thrown(msg) == [kind |-> "throw", val |-> msg]
Overflow == [kind |-> "overflow", val |-> <<>>]

\* value.match(/^var\(--([a-z0-9-]+)\)$/i)
VarMatch(v) ==
    /\ Len(v) >= 6
    /\ ToLower(v[1]) = "var"
    /\ v[2] = "(" /\ v[3] = "-" /\ v[4] = "-"
    /\ v[Len(v)] = ")"
    /\ \A j \in 5..(Len(v) - 1) : IsNameChar(v[j])

\* varMatch[1]
RefName(v) == SubSeq(v, 5, Len(v) - 1)

\* Message of the TypeError raised by value.match on a value that is no
\* string (an inherited member of Object.prototype).
NotAFunctionMsg == <<"value", ".", "match is not a function">>

\* resolveVar without its recursive call: one level of indirection only.
resolveVarOneLevel(v, table, depth) ==
    IF ~VarMatch(v) THEN Returned(v)
    ELSE IF RefName(v) = <<"color", "-", "white">> THEN Returned(White)
    ELSE IF RefName(v) = <<"color", "-", "black">> THEN Returned(Black)
    ELSE IF HasOwn(table, RefName(v)) /\ Get(table, RefName(v)) # <<>>
    THEN Returned(Get(table, RefName(v)))
    ELSE Returned(v)

RECURSIVE resolveVarAt(_, _, _)
\* resolveVar running in the frame number depth of its recursion.
resolveVarAt(v, table, depth) ==
    IF depth > StackLimit THEN Overflow
    ELSE IF ~VarMatch(v) THEN Returned(v)
    ELSE LET refName == RefName(v)
         IN  IF refName = <<"color", "-", "white">> THEN Returned(White)
             ELSE IF refName = <<"color", "-", "black">> THEN Returned(Black)
             ELSE IF HasOwn(table, refName)
             THEN LET resolved == Get(table, refName)
                  IN  IF resolved # <<>>
                      THEN resolveVarAt(resolved, table, depth + 1)
                      ELSE Returned(v)
             ELSE IF refName \in ObjectPrototypeNames
             THEN Thrown(NotAFunctionMsg)
             ELSE Returned(v)

\* resolveVar handing back its argument, not the reference its recursion
\* stopped at, when the chain ends at an unresolved reference.
resolveVarKeepOriginal(v, table) ==
    LET r == resolveVarAt(v, table, 1)
    IN  IF r.kind = "return" /\ VarMatch(r.val) THEN Returned(v) ELSE r

resolveVar(v, table) == resolveVarAt(v, table, 1)

(***************************************************************************)
(* JavaScript values: undefined, null, booleans, numbers, strings, arrays *)
(* and objects.  Every value is a record of the same shape; e holds the   *)
(* entries of an object (in insertion order) or the elements of an array. *)
(***************************************************************************)
JUndefined == [t |-> "undefined", s |-> <<>>, n |-> 0, e |-> <<>>]
JNull == [t |-> "null", s |-> <<>>, n |-> 0, e |-> <<>>]

\* The page before a theme is applied and before a component is mounted.
NothingApplied ==
    /\ rootStyle = <<>>
    /\ activeTheme = JNull
    /\ activeOrigin = JNull
    /\ isLoading = FALSE
    /\ error = JNull
    /\ localStorage = JNull
    /\ loads = <<>>
    /\ wasReset = FALSE

JBool(b) == [t |-> "boolean", s |-> <<>>, n |-> IF b THEN 1 ELSE 0, e |-> <<>>]
JNum(i) == [t |-> "number", s |-> <<>>, n |-> i, e |-> <<>>]
JStr(str) == [t |-> "string", s |-> str, n |-> 0, e |-> <<>>]
JObj(entries) == [t |-> "object", s |-> <<>>, n |-> 0, e |-> entries]
JArr(items) ==
    [t |-> "array", s |-> <<>>, n |-> 0,
     e |-> [i \in 1..Len(items) |-> [k |-> <<>>, v |-> items[i]]]]

\* o.name for an object o and a property name made of one atom.
Prop(o, name) == IF HasOwn(o.e, <<name>>) THEN Get(o.e, <<name>>) ELSE JUndefined
HasProp(o, name) == HasOwn(o.e, <<name>>)
\* An object whose properties are the strings of a property set.
StrObj(props) ==
    JObj([i \in 1..Len(props) |-> [k |-> props[i].k, v |-> JStr(props[i].v)]])
\* The property set (name -> string) of a mode of a theme.
StyleMap(o) == [k \in Keys(o.e) |-> Get(o.e, k).s]

(***************************************************************************)
(* schema.ts: parseCssBlock                                                *)
(***************************************************************************)
\* name.startsWith("color-") || name.startsWith("radius-")
IsThemeInline(name) ==
    StartsWith(name, <<"color", "-">>) \/ StartsWith(name, <<"radius", "-">>)

\* name.match(/^tracking-(tighter|tight|wide|wider|widest)$/)
IsTrackingScale(name) ==
    /\ Len(name) = 3
    /\ name[1] = "tracking" /\ name[2] = "-"
    /\ name[3] \in {"tighter", "tight", "wide", "wider", "widest"}

\* Every declared name stored under itself.
InternalNameUnmapped(name) == name

\* The internal name a declared name is stored under.
InternalName(name) ==
    IF name = <<"shadow", "-", "x">> THEN <<"shadow", "-", "offset", "-", "x">>
    ELSE IF name = <<"shadow", "-", "y">> THEN <<"shadow", "-", "offset", "-", "y">>
    ELSE IF name = <<"tracking", "-", "normal">> THEN <<"letter", "-", "spacing">>
    ELSE name

\* The loop of parseCssBlock over the matches ms, from the properties
\* props; an exception of resolveVar leaves the loop.
ParseBlockFrom(ms, varLookup, props) ==
    LET kept == IndicesOf(Len(ms), LAMBDA i :
                    ~(IsThemeInline(ms[i].name) \/ IsTrackingScale(ms[i].name)))
        rs == Once([n \in 1..Len(kept) |-> resolveVar(Trim(ms[kept[n]].value), varLookup)])
        failed == {n \in 1..Len(kept) : rs[n].kind # "return"}
    IN  IF failed # {}
        THEN [kind |-> rs[Min(failed)].kind, val |-> rs[Min(failed)].val, props |-> <<>>]
        ELSE [kind |-> "return", val |-> <<>>,
              props |-> PutAll(props, [n \in 1..Len(kept) |->
                                         [k |-> InternalName(ms[kept[n]].name),
                                          v |-> rs[n].val]])]

parseCssBlock(block, varLookup) ==
    ParseBlockFrom(MatchAllVars(block), varLookup, <<>>)

(***************************************************************************)
(* schema.ts: the block regular expressions  /<sel>\s*\{([^}]+)\}/         *)
(***************************************************************************)
\* The block regular expression with the selector left out: any block.
BlockRegexAnySelector(t, sel, i) ==
    LET b     == SkipSpace(t, i + Len(sel))
        close == IndexOf(t, "}", b + 1)
    IN  /\ i + Len(sel) - 1 <= Len(t)
        /\ b <= Len(t)
        /\ t[b] = "{"
        /\ close > b + 1

\* The selector at index i, spaces, '{', at least one character that is
\* not '}', then '}'.
BlockRegexAt(t, sel, i) ==
    LET b     == SkipSpace(t, i + Len(sel))
        close == IndexOf(t, "}", b + 1)
    IN  /\ StartsAt(t, sel, i)
        /\ b <= Len(t)
        /\ t[b] = "{"
        /\ close > b + 1

BlockContent(t, sel, i) ==
    LET b == SkipSpace(t, i + Len(sel))
    IN  SubSeq(t, b + 1, IndexOf(t, "}", b + 1) - 1)

\* css.match(/<sel>\s*\{([^}]+)\}/): found, and the captured group.
BlockMatch(t, sel) ==
    LET S == {i \in 1..Len(t) : BlockRegexAt(t, sel, i)}
    IN  IF S = {} THEN [found |-> FALSE, content |-> <<>>]
        ELSE [found |-> TRUE, content |-> BlockContent(t, sel, Min(S))]

(***************************************************************************)
(* schema.ts: parseLayerBase                                               *)
(***************************************************************************)
\* Atoms that hold a digit: they are in [a-z0-9-] and not in [a-z-].
DigitAtoms == {"0", "1", "2", "3"}
IsAlphaDash(a) == IsNameChar(a) /\ a \notin DigitAtoms

\* /@layer\s+base\s*\{([\s\S]*?body[\s\S]*?)\}/ at index i: the lazy
\* groups stop at the first "body" after '{' and at the first '}' after it.
LayerRegexAt(t, i) ==
    LET s1    == SkipSpace(t, i + 2)
        b     == SkipSpace(t, s1 + 1)
        body  == IndexOf(t, "body", b + 1)
        close == IndexOf(t, "}", body + 1)
    IN  /\ StartsAt(t, <<"@", "layer">>, i)
        /\ s1 > i + 2
        /\ s1 <= Len(t) /\ t[s1] = "base"
        /\ b <= Len(t) /\ t[b] = "{"
        /\ body > 0
        /\ close > 0

LayerCapture(t, i) ==
    LET s1    == SkipSpace(t, i + 2)
        b     == SkipSpace(t, s1 + 1)
        body  == IndexOf(t, "body", b + 1)
        close == IndexOf(t, "}", body + 1)
    IN  SubSeq(t, b + 1, close - 1)

\* /(?:^|\n)body\s*\{([^}]+)\}/
RootBodyMatch(t) ==
    LET S == {i \in 1..Len(t) :
                /\ i = 1 \/ t[i - 1] = "\n"
                /\ BlockRegexAt(t, <<"body">>, i)}
    IN  IF S = {} THEN [found |-> FALSE, content |-> <<>>]
        ELSE [found |-> TRUE, content |-> BlockContent(t, <<"body">>, Min(S))]

\* /([a-z-]+)\s*:\s*([^;]+);/gi at index i.
PropRegexAt(t, i) ==
    LET S    == {j \in i..Len(t) : ~IsAlphaDash(t[j])}
        n1   == IF S = {} THEN Len(t) + 1 ELSE Min(S)
        c    == SkipSpace(t, n1)
        v0   == SkipSpace(t, c + 1)
        semi == IndexOf(t, ";", c + 1)
        ok   == /\ n1 > i
                /\ c <= Len(t)
                /\ t[c] = ":"
                /\ semi > c + 1
    IN  IF ok
        THEN [ok |-> TRUE, name |-> SubSeq(t, i, n1 - 1),
              value |-> IF v0 < semi THEN SubSeq(t, v0, semi - 1)
                        ELSE <<t[semi - 1]>>,
              next |-> semi + 1]
        ELSE [ok |-> FALSE, name |-> <<>>, value |-> <<>>, next |-> i + 1]

RECURSIVE BodyPropsFrom(_, _, _)
\* The loop of parseLayerBase over bodyContent.matchAll(propRegex).
BodyPropsFrom(t, i, bodyProps) ==
    IF i > Len(t) THEN bodyProps
    ELSE LET m == PropRegexAt(t, i)
         IN  IF m.ok
             THEN BodyPropsFrom(t, m.next, Put(bodyProps, Trim(m.name), Trim(m.value)))
             ELSE BodyPropsFrom(t, i + 1, bodyProps)

\* The result is undefined or { "@layer base": { body: bodyProps } }.
parseLayerBase(t) ==
    LET L == {i \in 1..Len(t) : LayerRegexAt(t, i)}
        bodyMatch == IF L # {}
                     THEN BlockMatch(LayerCapture(t, Min(L)), <<"body">>)
                     ELSE RootBodyMatch(t)
        bodyProps == BodyPropsFrom(bodyMatch.content, 1, <<>>)
    IN  IF ~bodyMatch.found THEN JUndefined
        ELSE IF bodyProps = <<>> THEN JUndefined
        ELSE JObj(<<[k |-> <<"@layer base">>,
                     v |-> JObj(<<[k |-> <<"body">>, v |-> StrObj(bodyProps)]>>)]>>)

(***************************************************************************)
(* schema.ts: parseCss                                                     *)
(***************************************************************************)
requiredProps == << <<"background">>, <<"foreground">>, <<"primary">>, <<"radius">> >>

MissingRootMsg == <<"Missing ", ":", "root", " { } block for light mode">>
MissingPropMsg(prop) == <<"Missing required property: ", "-", "-">> \o prop
StackOverflowMsg == <<"Maximum call stack size exceeded">>

\* { valid: false, error }
Invalid(msg) ==
    JObj(<<[k |-> <<"valid">>, v |-> JBool(FALSE)], [k |-> <<"error">>, v |-> JStr(msg)]>>)

\* The call that never returns.
Diverged == [t |-> "diverged", s |-> <<>>, n |-> 0, e |-> <<>>]

\* The catch clause of parseCss, for an exception of kind "throw" or for a
\* recursion that needs more frames than the stack has: an engine that
\* keeps a frame per call raises RangeError, which is caught; an engine
\* with proper tail calls reuses the frame of resolveVar's tail call and
\* never leaves the recursion.
Caught(outcome, eng) ==
    IF outcome.kind = "throw" THEN Invalid(outcome.val)
    ELSE IF eng = "stack" THEN Invalid(StackOverflowMsg)
    ELSE Diverged

\* The entries of a property set whose value starts with "var(", each as
\* "--key" followed by suffix.
UnresolvedIn(props, suffix) ==
    LET unresolved == IndicesOf(Len(props), LAMBDA i : StartsWith(props[i].v, <<"var", "(">>))
    IN  [n \in 1..Len(unresolved) |-> <<"-", "-">> \o props[unresolved[n]].k \o suffix]

UnresolvedMsg(unresolvedVars) ==
    <<"Unresolved var() references: ">>
    \o Join(SubSeq(unresolvedVars, 1, IF Len(unresolvedVars) < 3
                                      THEN Len(unresolvedVars) ELSE 3), <<", ">>)
    \o (IF Len(unresolvedVars) > 3
        THEN <<" and ", ToString(Len(unresolvedVars) - 3), " more">>
        ELSE <<>>)
    \o <<". Please paste CSS with resolved values.">>

\* The theme and the metadata of a successful parse.
ParsedTheme(name, lightStyles, darkStyles, cssRules) ==
    JObj(<<[k |-> <<"$schema">>, v |-> JStr(THEME_TOKEN_SCHEMA_URL)],
           [k |-> <<"name">>, v |-> JStr(name)],
           [k |-> <<"styles">>,
            v |-> JObj(<<[k |-> <<"light">>, v |-> StrObj(lightStyles)],
                         [k |-> <<"dark">>, v |-> StrObj(darkStyles)]>>)]>>
         \o (IF cssRules # JUndefined THEN <<[k |-> <<"css">>, v |-> cssRules]>> ELSE <<>>))

\* The metadata with the two mode counts added up as the total.
ParsedMetadataSummed(lightStyles, darkStyles, hasLightMode, hasDarkMode) ==
    JObj(<<[k |-> <<"lightPropertyCount">>, v |-> JNum(Len(lightStyles))],
           [k |-> <<"darkPropertyCount">>, v |-> JNum(Len(darkStyles))],
           [k |-> <<"totalPropertyCount">>,
            v |-> JNum(Len(lightStyles) + Len(darkStyles))],
           [k |-> <<"hasLightMode">>, v |-> JBool(hasLightMode)],
           [k |-> <<"hasDarkMode">>, v |-> JBool(hasDarkMode)]>>)

ParsedMetadata(lightStyles, darkStyles, hasLightMode, hasDarkMode) ==
    JObj(<<[k |-> <<"lightPropertyCount">>, v |-> JNum(Len(lightStyles))],
           [k |-> <<"darkPropertyCount">>, v |-> JNum(Len(darkStyles))],
           [k |-> <<"totalPropertyCount">>,
            v |-> JNum(Cardinality(Keys(lightStyles) \cup Keys(darkStyles)))],
           [k |-> <<"hasLightMode">>, v |-> JBool(hasLightMode)],
           [k |-> <<"hasDarkMode">>, v |-> JBool(hasDarkMode)]>>)

\* The dark mode without the fallback to the light mode.
darkStylesNoFallback(darkMatch, light, varLookup) ==
    IF darkMatch.found THEN parseCssBlock(darkMatch.content, varLookup)
    ELSE [kind |-> "return", val |-> <<>>, props |-> <<>>]

\* darkMatch ? parseCssBlock(darkMatch[1], varLookup) : { ...lightStyles }
darkStylesOf(darkMatch, light, varLookup) ==
    IF darkMatch.found THEN parseCssBlock(darkMatch.content, varLookup) ELSE light

\* The loop over requiredProps: the indices of the names that are not in
\* lightStyles; the loop returns at the first of them.
MissingRequired(lightStyles) ==
    {i \in 1..Len(requiredProps) : ~In(lightStyles, requiredProps[i])}

FirstMissing(lightStyles) == requiredProps[Min(MissingRequired(lightStyles))]

\* The two loops that fill unresolvedVars.
unresolvedVarsOf(lightStyles, darkStyles) ==
    UnresolvedIn(lightStyles, <<>>) \o UnresolvedIn(darkStyles, <<" (dark)">>)

\* parseCss(css, name) on the engine eng.
parseCss(text, name, eng) ==
    LET rootMatch == BlockMatch(text, <<":", "root">>)
        darkMatch == BlockMatch(text, <<".", "dark">>)
        varLookup == buildVarLookup(text)
        light     == parseCssBlock(rootMatch.content, varLookup)
        dark      == darkStylesOf(darkMatch, light, varLookup)
        unresolvedVars == unresolvedVarsOf(light.props, dark.props)
    IN  IF ~rootMatch.found THEN Invalid(MissingRootMsg)
        ELSE IF light.kind # "return" THEN Caught(light, eng)
        ELSE IF dark.kind # "return" THEN Caught(dark, eng)
        ELSE IF MissingRequired(light.props) # {}
        THEN Invalid(MissingPropMsg(FirstMissing(light.props)))
        ELSE IF Len(unresolvedVars) > 0 THEN Invalid(UnresolvedMsg(unresolvedVars))
        ELSE JObj(<<[k |-> <<"valid">>, v |-> JBool(TRUE)],
                    [k |-> <<"theme">>,
                     v |-> ParsedTheme(name, light.props, dark.props, parseLayerBase(text))],
                    [k |-> <<"metadata">>,
                     v |-> ParsedMetadata(light.props, dark.props,
                                          rootMatch.found, darkMatch.found)]>>)

(***************************************************************************)
(* The callers' inputs.                                                    *)
(*                                                                         *)
(* A stylesheet is written as a :root block and a .dark block of          *)
(* declarations and an optional body rule; Render is its text.            *)
(***************************************************************************)
Ref(name) == <<"var", "(", "-", "-">> \o name \o <<")">>
Decl(name, val) == [n |-> name, v |-> val]

DeclText(d) == <<" ", "-", "-">> \o d.n \o <<":", " ">> \o d.v \o <<";", "\n">>

DeclsText(ds) == Concat([i \in 1..Len(ds) |-> DeclText(ds[i])])

BlockText(sel, ds) == sel \o <<" ", "{", "\n">> \o DeclsText(ds) \o <<"}", "\n">>

BodyRule == <<"body", " ", "{", " ", "letter", "-", "spacing", ":", " ", "0.5rem", ";", " ", "}", "\n">>

OtherBodyRule == <<"body", " ", "{", " ", "letter", "-", "spacing", ":", " ", "0em", ";", " ", "}", "\n">>

WrappedBodyRule == <<"@", "layer", " ", "base", " ", "{", "\n", " ">> \o BodyRule \o <<"}", "\n">>

BodyText(kind) ==
    IF kind = "top" THEN BodyRule
    ELSE IF kind = "wrapped" THEN WrappedBodyRule
    ELSE IF kind = "both" THEN WrappedBodyRule \o OtherBodyRule
    ELSE <<>>

Render(sh) ==
    LET root == IF sh.hasRoot THEN BlockText(<<":", "root">>, sh.root) ELSE <<>>
        dark == IF sh.hasDark THEN BlockText(<<".", "dark">>, sh.dark) ELSE <<>>
    IN  (IF sh.darkFirst THEN dark \o root ELSE root \o dark) \o BodyText(sh.body)

Sheet(root, hasRoot, dark, hasDark) ==
    [root |-> root, hasRoot |-> hasRoot, dark |-> dark, hasDark |-> hasDark,
     darkFirst |-> FALSE, body |-> "none"]

LightDecls ==
    <<Decl(<<"background">>, White), Decl(<<"foreground">>, Black),
      Decl(<<"primary">>, <<"red">>), Decl(<<"radius">>, <<"0.5rem">>)>>
DarkDecls ==
    <<Decl(<<"background">>, Black), Decl(<<"foreground">>, White),
      Decl(<<"primary">>, <<"blue">>), Decl(<<"radius">>, <<"0.5rem">>)>>
\* References that resolve: a chain a -> b -> literal, and a built-in.
ChainDecls ==
    <<Decl(<<"background">>, Ref(<<"a">>)),
      Decl(<<"foreground">>, Ref(<<"color", "-", "black">>)),
      Decl(<<"primary">>, <<"red">>), Decl(<<"radius">>, <<"0.5rem">>),
      Decl(<<"a">>, Ref(<<"b">>)), Decl(<<"b">>, White)>>
\* References to names nothing declares.
DanglingDecls ==
    <<Decl(<<"background">>, Ref(<<"nope">>)), Decl(<<"foreground">>, Ref(<<"nope">>)),
      Decl(<<"primary">>, <<"red">>), Decl(<<"radius">>, Ref(<<"nope">>))>>

\* A name declared in both blocks and referred to in both.
CrossDecls == LightDecls \o <<Decl(<<"a">>, Ref(<<"background">>))>>

InitialSheets ==
    {Sheet(LightDecls, TRUE, <<>>, FALSE),
     Sheet(LightDecls, TRUE, DarkDecls, TRUE),
     Sheet(ChainDecls, TRUE, <<>>, FALSE),
     Sheet(DanglingDecls, TRUE, DanglingDecls, TRUE),
     Sheet(Tail(LightDecls), TRUE, DarkDecls, TRUE),
     Sheet(<<>>, FALSE, DarkDecls, TRUE),
     Sheet(CrossDecls, TRUE,
           <<Decl(<<"background">>, Black), Decl(<<"b">>, Ref(<<"background">>))>>, TRUE)}

EditNames == {<<"background">>, <<"a">>, <<"tracking", "-", "normal">>}
EditValues ==
    {<<"red">>, Ref(<<"a">>), Ref(<<"nope">>), Ref(<<"constructor">>),
     <<"VAR", "(", "-", "-", "nope", ")">>,
     <<"var", "(", "-", "-", "a", ",", " 1px", ")">>}

Engines == {"stack", "tailcall"}

NoResult == JUndefined

InitParse ==
    /\ pc = "edit"
    /\ edits = 0
    /\ engine \in Engines
    /\ sheet \in InitialSheets
    /\ css = <<>>
    /\ pres = NoResult
    /\ lookup = <<>> /\ value = <<>> /\ r1 = <<>> /\ r2 = <<>>
    /\ data = NoResult /\ vres = NoResult /\ json = <<>> /\ rres = NoResult
    /\ NothingLoaded
    /\ NothingApplied

Edit(sh) ==
    /\ pc = "edit"
    /\ edits < MaxEdits
    /\ sheet' = sh
    /\ edits' = edits + 1
    /\ UNCHANGED <<pc, engine, css, pres, resolveVars, validateVars, loadVars, rootStyle, hookVars>>

\* The author appends a declaration to a block.
AddRootDecl == \E n \in EditNames, v \in EditValues :
    Edit([sheet EXCEPT !.root = Append(@, Decl(n, v))])

AddDarkDecl == \E n \in EditNames, v \in EditValues :
    Edit([sheet EXCEPT !.dark = Append(@, Decl(n, v))])

Remove(ds, i) == SubSeq(ds, 1, i - 1) \o SubSeq(ds, i + 1, Len(ds))

\* The author deletes a declaration.
DropRootDecl == \E i \in 1..Len(sheet.root) :
    Edit([sheet EXCEPT !.root = Remove(@, i)])

DropDarkDecl == \E i \in 1..Len(sheet.dark) :
    Edit([sheet EXCEPT !.dark = Remove(@, i)])

\* The author deletes or restores a whole block, or reorders the blocks.
ToggleRoot == Edit([sheet EXCEPT !.hasRoot = ~@])
ToggleDark == Edit([sheet EXCEPT !.hasDark = ~@])
SwapBlocks == Edit([sheet EXCEPT !.darkFirst = ~@])

\* The author adds a body rule, at the top level, inside @layer base, or
\* one in each place.
SetBody == \E kind \in {"top", "wrapped", "both"} :
    /\ sheet.body = "none"
    /\ Edit([sheet EXCEPT !.body = kind])

ThemeName == <<"Custom Theme">>

\* parseCss(css) is called on the text of the stylesheet.
ParseCss ==
    /\ pc = "edit"
    /\ css' = Render(sheet)
    /\ pres' = parseCss(Render(sheet), ThemeName, engine)
    /\ pc' = IF pres' = Diverged THEN "diverged" ELSE "parsed"
    /\ UNCHANGED <<edits, engine, sheet, resolveVars, validateVars, loadVars, rootStyle, hookVars>>

NextParse ==
    \/ AddRootDecl \/ AddDarkDecl \/ DropRootDecl \/ DropDarkDecl
    \/ ToggleRoot \/ ToggleDark \/ SwapBlocks \/ SetBody
    \/ ParseCss

SpecParse == InitParse /\ [][NextParse]_vars

(***************************************************************************)
(* Calls of resolveVar on lookup tables as buildVarLookup builds them:    *)
(* values trimmed, no name inherited from Object.prototype as a key.      *)
(***************************************************************************)
TableNames == << <<"a">>, <<"b">>, <<"c">> >>
TableValues ==
    {<<"red">>, <<>>, Ref(<<"a">>), Ref(<<"b">>), Ref(<<"c">>), Ref(<<"nope">>)}
ArgValues ==
    TableValues \cup
    {Ref(<<"color", "-", "white">>), Ref(<<"constructor">>),
     <<"VAR", "(", "-", "-", "a", ")">>,
     <<"var", "(", "-", "-", "a", ",", " 1px", ")">>,
     <<"var", "(", "-", "-", "a", ")", " 1px">>}

\* The table that declares the names of TableNames chosen by has, with the
\* values vals.
TableOf(has, vals) ==
    LET RECURSIVE Build(_)
        Build(i) == IF i > Len(TableNames) THEN <<>>
                    ELSE (IF has[i] THEN <<[k |-> TableNames[i], v |-> vals[i]]>> ELSE <<>>)
                         \o Build(i + 1)
    IN  Build(1)

Tables ==
    {TableOf(has, vals) :
        has \in [1..Len(TableNames) -> BOOLEAN],
        vals \in [1..Len(TableNames) -> TableValues]}

InitResolve ==
    /\ pc = "ready"
    /\ edits = 0
    /\ engine \in Engines
    /\ lookup \in Tables
    /\ value \in ArgValues
    /\ r1 = <<>> /\ r2 = <<>>
    /\ sheet = <<>> /\ css = <<>> /\ pres = NoResult
    /\ data = NoResult /\ vres = NoResult /\ json = <<>> /\ rres = NoResult
    /\ NothingLoaded
    /\ NothingApplied

\* What the caller of resolveVar sees on the engine eng: the outcome of the
\* call, where a recursion beyond the stack is a RangeError on an engine
\* that keeps a frame per call and no return at all on an engine with
\* proper tail calls.
CallResolveVar(v, table, eng) ==
    LET r == resolveVar(v, table)
    IN  IF r.kind # "overflow" THEN r
        ELSE IF eng = "stack" THEN Thrown(StackOverflowMsg)
        ELSE [kind |-> "diverged", val |-> <<>>]

\* r1 = resolveVar(value, lookup)
Resolve ==
    /\ pc = "ready"
    /\ r1' = CallResolveVar(value, lookup, engine)
    /\ pc' = IF r1'.kind = "diverged" THEN "diverged"
             ELSE IF r1'.kind = "throw" THEN "thrown" ELSE "resolved"
    /\ UNCHANGED <<edits, engine, parseVars, lookup, value, r2, validateVars, loadVars, rootStyle, hookVars>>

\* r2 = resolveVar(r1, lookup)
ResolveAgain ==
    /\ pc = "resolved"
    /\ r2' = CallResolveVar(r1.val, lookup, engine)
    /\ pc' = "again"
    /\ UNCHANGED <<edits, engine, parseVars, lookup, value, r1, validateVars, loadVars, rootStyle, hookVars>>

NextResolve == Resolve \/ ResolveAgain

SpecResolve == InitResolve /\ [][NextResolve]_vars

(***************************************************************************)
(* Calls of buildVarLookup on the text of a stylesheet and of              *)
(* parseCssBlock on one of its blocks, as parseCss makes them.             *)
(***************************************************************************)
BlockNames ==
    {<<"a">>, <<"color", "-", "a">>, <<"radius", "-", "lg">>, <<"tracking", "-", "tight">>,
     <<"shadow", "-", "x">>, <<"tracking", "-", "normal">>, <<"constructor">>}
BlockValues == {<<"red", " ">>, <<"blue">>, Ref(<<"a">>)}

\* Every name parseCssBlock treats specially, and plain ones.
MappedDecls ==
    <<Decl(<<"background">>, White),
      Decl(<<"color", "-", "background">>, Ref(<<"background">>)),
      Decl(<<"radius">>, <<"0.5rem">>),
      Decl(<<"radius", "-", "lg">>, Ref(<<"radius">>)),
      Decl(<<"shadow", "-", "x">>, <<"0">>),
      Decl(<<"shadow", "-", "y">>, <<"1">>),
      Decl(<<"tracking", "-", "normal">>, <<"0.5rem">>),
      Decl(<<"tracking", "-", "wide">>, <<"1">>),
      Decl(<<"tracking", "-", "widest">>, <<"2">>),
      Decl(<<"a">>, Ref(<<"b">>))>>
\* Names declared again, in the same block and in the next.
AgainDecls ==
    <<Decl(<<"a">>, <<"red">>), Decl(<<"b">>, Ref(<<"a">>)), Decl(<<"a">>, <<"blue">>)>>

BlockSheets ==
    {Sheet(MappedDecls, TRUE, <<Decl(<<"b">>, Black)>>, TRUE),
     Sheet(AgainDecls, TRUE, <<Decl(<<"b">>, <<"blue">>), Decl(<<"c">>, Ref(<<"b">>))>>, TRUE),
     Sheet(LightDecls, TRUE, DarkDecls, TRUE)}

InitBlock ==
    /\ pc = "edit"
    /\ edits = 0
    /\ engine \in Engines
    /\ sheet \in BlockSheets
    /\ css = <<>>
    /\ pres = NoResult
    /\ lookup = <<>> /\ value = <<>> /\ r1 = <<>> /\ r2 = <<>>
    /\ data = NoResult /\ vres = NoResult /\ json = <<>> /\ rres = NoResult
    /\ NothingLoaded
    /\ NothingApplied

\* The author appends a declaration to a block.
DeclareInRoot == \E n \in BlockNames, v \in BlockValues :
    Edit([sheet EXCEPT !.root = Append(@, Decl(n, v))])

DeclareInDark == \E n \in BlockNames, v \in BlockValues :
    Edit([sheet EXCEPT !.dark = Append(@, Decl(n, v))])

\* lookup = buildVarLookup(css)
BuildVarLookup ==
    /\ pc = "edit"
    /\ css' = Render(sheet)
    /\ lookup' = buildVarLookup(css')
    /\ pc' = "built"
    /\ UNCHANGED <<edits, engine, sheet, pres, value, r1, r2, validateVars, loadVars, rootStyle, hookVars>>

RootSelector == <<":", "root">>
DarkSelector == <<".", "dark">>

\* r1 = parseCssBlock(match[1], lookup) for the :root or the .dark block;
\* value is the block's text and r2 its selector.
ParseCssBlock == \E sel \in {RootSelector, DarkSelector} :
    /\ pc = "built"
    /\ BlockMatch(css, sel).found
    /\ value' = BlockMatch(css, sel).content
    /\ r2' = sel
    /\ r1' = LET r == parseCssBlock(value', lookup)
             IN  IF r.kind # "overflow" THEN r
                 ELSE IF engine = "stack"
                 THEN [kind |-> "throw", val |-> StackOverflowMsg, props |-> <<>>]
                 ELSE [kind |-> "diverged", val |-> <<>>, props |-> <<>>]
    /\ pc' = IF r1'.kind = "diverged" THEN "diverged"
             ELSE IF r1'.kind = "throw" THEN "thrown" ELSE "block"
    /\ UNCHANGED <<edits, engine, sheet, css, pres, lookup, validateVars, loadVars, rootStyle, hookVars>>

NextBlock ==
    \/ DeclareInRoot \/ DeclareInDark \/ SwapBlocks
    \/ BuildVarLookup \/ ParseCssBlock

SpecBlock == InitBlock /\ [][NextBlock]_vars


(***************************************************************************)
(* zod: the schema constructors schema.ts uses, and safeParse.            *)
(***************************************************************************)
ZString == [kind |-> "string"]
ZOptional(inner) == [kind |-> "optional", inner |-> inner]
ZLiteral(val) == [kind |-> "literal", value |-> val]
ZEnum(values) == [kind |-> "enum", values |-> values]
\* z.number().int().min(m); the numbers of the model are integers.
ZIntMin(m) == [kind |-> "int", min |-> m]
ZArray(inner) == [kind |-> "array", inner |-> inner]
\* z.record(z.string(), inner)
ZRecord(inner) == [kind |-> "record", inner |-> inner]
\* z.object(shape): unknown keys are stripped.
ZObject(shape) == [kind |-> "object", shape |-> shape, hasCatchall |-> FALSE,
                   catchall |-> ZString]
\* z.object(shape).catchall(inner): unknown keys are checked against inner.
ZCatchall(shape, inner) == [kind |-> "object", shape |-> shape, hasCatchall |-> TRUE,
                            catchall |-> inner]
Field(name, schema) == [k |-> name, s |-> schema]

Accept(out) == [ok |-> TRUE, out |-> out, issues |-> <<>>]
Reject(path) == [ok |-> FALSE, out |-> JUndefined, issues |-> <<path>>]

\* data[key]
Lookup(d, key) == IF HasOwn(d.e, key) THEN Get(d.e, key) ELSE JUndefined

\* The entries of q that satisfy keep, in order.
Filter(q, keep) ==
    LET kept == IndicesOf(Len(q), LAMBDA i : keep[i])
    IN  [n \in 1..Len(kept) |-> q[kept[n]]]

RECURSIVE SafeParse(_, _, _)
\* schema.safeParse(d), for the value at path.
SafeParse(z, d, path) ==
    CASE z.kind = "string" -> IF d.t = "string" THEN Accept(d) ELSE Reject(path)
      [] z.kind = "optional" ->
            IF d.t = "undefined" THEN Accept(d) ELSE SafeParse(z.inner, d, path)
      [] z.kind = "literal" -> IF d = z.value THEN Accept(d) ELSE Reject(path)
      [] z.kind = "enum" ->
            IF d.t = "string" /\ d.s \in z.values THEN Accept(d) ELSE Reject(path)
      [] z.kind = "int" ->
            IF d.t = "number" /\ d.n >= z.min THEN Accept(d) ELSE Reject(path)
      [] z.kind = "array" ->
            IF d.t # "array" THEN Reject(path)
            ELSE LET rs == Once([i \in 1..Len(d.e) |->
                              SafeParse(z.inner, d.e[i].v, path \o <<".", ToString(i - 1)>>)])
                 IN  [ok |-> \A i \in 1..Len(d.e) : rs[i].ok,
                      out |-> JArr([i \in 1..Len(d.e) |-> rs[i].out]),
                      issues |-> Concat([i \in 1..Len(d.e) |-> rs[i].issues])]
      [] z.kind = "record" ->
            IF d.t # "object" THEN Reject(path)
            ELSE LET rs == Once([i \in 1..Len(d.e) |->
                              SafeParse(z.inner, d.e[i].v, path \o <<".">> \o d.e[i].k)])
                 IN  [ok |-> \A i \in 1..Len(d.e) : rs[i].ok,
                      out |-> JObj([i \in 1..Len(d.e) |-> [k |-> d.e[i].k, v |-> rs[i].out]]),
                      issues |-> Concat([i \in 1..Len(d.e) |-> rs[i].issues])]
      [] z.kind = "object" ->
            IF d.t # "object" THEN Reject(path)
            ELSE LET shapeKeys == {z.shape[i].k : i \in 1..Len(z.shape)}
                     \* the keys of the shape, in the order of the shape
                     known == Once([i \in 1..Len(z.shape) |->
                                 SafeParse(z.shape[i].s, Lookup(d, z.shape[i].k),
                                           path \o <<".">> \o z.shape[i].k)])
                     knownOut == [i \in 1..Len(z.shape) |->
                                    [k |-> z.shape[i].k, v |-> known[i].out]]
                     \* a key of the shape is set when its value is not
                     \* undefined or the key is in the data
                     knownSet == [i \in 1..Len(z.shape) |->
                                    known[i].out # JUndefined \/ HasOwn(d.e, z.shape[i].k)]
                     \* the other keys of the data, in the order of the data
                     extra == Filter(d.e, [i \in 1..Len(d.e) |-> d.e[i].k \notin shapeKeys])
                     more == Once([i \in 1..Len(extra) |->
                                SafeParse(z.catchall, extra[i].v, path \o <<".">> \o extra[i].k)])
                     moreOut == [i \in 1..Len(extra) |-> [k |-> extra[i].k, v |-> more[i].out]]
                 IN  [ok |-> /\ \A i \in 1..Len(z.shape) : known[i].ok
                             /\ z.hasCatchall => \A i \in 1..Len(extra) : more[i].ok,
                      out |-> JObj(Filter(knownOut, knownSet)
                                   \o (IF z.hasCatchall THEN moreOut ELSE <<>>)),
                      issues |-> Concat([i \in 1..Len(z.shape) |-> known[i].issues])
                                 \o (IF z.hasCatchall
                                     THEN Concat([i \in 1..Len(extra) |-> more[i].issues])
                                     ELSE <<>>)]

(***************************************************************************)
(* schema.ts: the schemas.                                                 *)
(***************************************************************************)
CoreKeys ==
    << <<"background">>, <<"foreground">>, <<"card">>, <<"card", "-", "foreground">>,
       <<"popover">>, <<"popover", "-", "foreground">>,
       <<"primary">>, <<"primary", "-", "foreground">>,
       <<"secondary">>, <<"secondary", "-", "foreground">>,
       <<"muted">>, <<"muted", "-", "foreground">>,
       <<"accent">>, <<"accent", "-", "foreground">>,
       <<"destructive">>, <<"destructive", "-", "foreground">>,
       <<"border">>, <<"input">>, <<"ring">>, <<"radius">> >>

\* The required properties without the last one.
corePropsWithoutRadius ==
    [i \in 1..(Len(CoreKeys) - 1) |-> Field(CoreKeys[i], ZString)]

corePropsShape == [i \in 1..Len(CoreKeys) |-> Field(CoreKeys[i], ZString)]

\* The required properties alone: additional ones are stripped.
themeStylePropsStripped == ZObject(corePropsShape)

themeStylePropsSchema == ZCatchall(corePropsShape, ZString)

themeStylesSchema ==
    ZObject(<<Field(<<"light">>, themeStylePropsSchema),
              Field(<<"dark">>, themeStylePropsSchema)>>)

cssRulesSchema ==
    ZOptional(ZObject(<<Field(<<"@layer base">>, ZOptional(ZRecord(ZRecord(ZString))))>>))

bundleAssetSchema ==
    ZObject(<<Field(<<"vout">>, ZIntMin(0)),
              Field(<<"type">>, ZEnum({<<"font">>, <<"pattern">>, <<"wallpaper">>, <<"icon">>})),
              Field(<<"slot">>, ZString)>>)

bundleSchema ==
    ZObject(<<Field(<<"version">>, ZLiteral(JNum(1))),
              Field(<<"assets">>, ZArray(bundleAssetSchema))>>)

themeTokenSchema ==
    ZObject(<<Field(<<"$schema">>, ZString),
              Field(<<"name">>, ZString),
              Field(<<"author">>, ZOptional(ZString)),
              Field(<<"bundle">>, ZOptional(bundleSchema)),
              Field(<<"styles">>, themeStylesSchema),
              Field(<<"css">>, cssRulesSchema)>>)

(***************************************************************************)
(* schema.ts: validateThemeToken                                           *)
(***************************************************************************)
\* result.error.message: the issues, one per value that failed.
ZodMessage(issues) == <<"[">> \o Join(issues, <<",">>) \o <<"]">>

validateThemeToken(d) ==
    LET result == SafeParse(themeTokenSchema, d, <<"data">>)
    IN  IF result.ok
        THEN JObj(<<[k |-> <<"valid">>, v |-> JBool(TRUE)],
                    [k |-> <<"theme">>, v |-> result.out]>>)
        ELSE Invalid(ZodMessage(result.issues))


(***************************************************************************)
(* transform.ts: toJson, that is JSON.stringify(theme, null, pretty ? 2 :   *)
(* 0), and its inverse JSON.parse, on the text as a sequence of atoms.      *)
(***************************************************************************)
\* No escaping at all.
EscapeNothing(a) == <<a>>

\* The escapes of a JSON string, among the atoms of the model.
Escape(a) ==
    IF a = "\"" THEN <<"\\", "\"">>
    ELSE IF a = "\\" THEN <<"\\", "\\">>
    ELSE IF a = "\n" THEN <<"\\", "n">>
    ELSE <<a>>

Quote(str) == <<"\"">> \o Concat([i \in 1..Len(str) |-> Escape(str[i])]) \o <<"\"">>

Spaces(k) == [i \in 1..k |-> " "]

NumberText(n) == IF n < 0 THEN <<"-", ToString(-n)>> ELSE <<ToString(n)>>

RECURSIVE Stringify(_, _, _)
\* JSON.stringify(v, null, gap) at indentation ind.  A property whose value is
\* undefined is left out; an undefined item of an array is written null.
Stringify(v, gap, ind) ==
    LET open(b) == IF gap = 0 THEN <<b>> ELSE <<b, "\n">> \o Spaces(ind + gap)
        sep == IF gap = 0 THEN <<",">> ELSE <<",", "\n">> \o Spaces(ind + gap)
        close(b) == IF gap = 0 THEN <<b>> ELSE <<"\n">> \o Spaces(ind) \o <<b>>
        colon == IF gap = 0 THEN <<":">> ELSE <<":", " ">>
    IN  CASE v.t = "string" -> Quote(v.s)
          [] v.t = "number" -> NumberText(v.n)
          [] v.t = "boolean" -> <<IF v.n = 1 THEN "true" ELSE "false">>
          [] v.t = "null" -> <<"null">>
          [] v.t = "undefined" -> <<"null">>
          [] v.t = "array" ->
                IF v.e = <<>> THEN <<"[", "]">>
                ELSE open("[")
                     \o Join([i \in 1..Len(v.e) |-> Stringify(v.e[i].v, gap, ind + gap)], sep)
                     \o close("]")
          [] v.t = "object" ->
                LET members == Filter(v.e, [i \in 1..Len(v.e) |-> v.e[i].v.t # "undefined"])
                IN  IF members = <<>> THEN <<"{", "}">>
                    ELSE open("{")
                         \o Join([i \in 1..Len(members) |->
                                    Quote(members[i].k) \o colon
                                    \o Stringify(members[i].v, gap, ind + gap)], sep)
                         \o close("}")

toJson(theme, pretty) == Stringify(theme, IF pretty THEN 2 ELSE 0, 0)

\* A parse: the value read and the index after it, or a SyntaxError.
Read(val, next) == [ok |-> TRUE, val |-> val, next |-> next]
SyntaxError == [ok |-> FALSE, val |-> JUndefined, next |-> 0]

At(t, i) == IF i <= Len(t) THEN t[i] ELSE "<end>"

RECURSIVE StringFrom(_, _, _)
\* The characters of a JSON string from index j, up to its closing quote.
StringFrom(t, j, acc) ==
    IF j > Len(t) \/ t[j] = "\n" THEN SyntaxError
    ELSE IF t[j] = "\"" THEN Read(JStr(acc), j + 1)
    ELSE IF t[j] = "\\"
         THEN IF At(t, j + 1) \in {"\"", "\\"} THEN StringFrom(t, j + 2, Append(acc, t[j + 1]))
              ELSE IF At(t, j + 1) = "n" THEN StringFrom(t, j + 2, Append(acc, "\n"))
              ELSE SyntaxError
    ELSE StringFrom(t, j + 1, Append(acc, t[j]))

StringAt(t, i) == IF At(t, i) = "\"" THEN StringFrom(t, i + 1, <<>>) ELSE SyntaxError

\* The number a run of digits writes.
NumberOf(a) == CHOOSE n \in 0..9 : ToString(n) = a

\* The quotes of t that open or close a string: those after an even run
\* of backslashes.
StringQuotes(t) ==
    {j \in 1..Len(t) :
        /\ t[j] = "\""
        /\ \/ j = 1
           \/ t[j - 1] # "\\"
           \/ \E x \in 0..(j - 1) :
                 /\ x = 0 \/ t[x] # "\\"
                 /\ \A y \in (x + 1)..(j - 1) : t[y] = "\\"
                 /\ (j - 1 - x) % 2 = 0}

\* The brackets and commas of t that stand outside every string.
Structural(t, quotes) ==
    {j \in 1..Len(t) :
        /\ t[j] \in {"{", "[", "}", "]", ","}
        /\ Cardinality({q \in quotes : q < j}) % 2 = 0}

\* The brackets opened and not closed from index i to index j.
Depth(t, marks, i, j) ==
    Cardinality({o \in marks : i <= o /\ o <= j /\ t[o] \in {"{", "["}})
    - Cardinality({c \in marks : i <= c /\ c <= j /\ t[c] \in {"}", "]"}})

\* The first and last index of each member, given where each one stops.
PartsBetween(i, stops) ==
    [n \in 1..Len(stops) |->
        [from |-> IF n = 1 THEN i ELSE stops[n - 1] + 1, stop |-> stops[n]]]

\* The members from index i up to the bracket at index end, which the
\* commas at the depth of i set apart.
MembersUpTo(t, marks, i, end) ==
    [ok |-> TRUE, end |-> end,
     parts |-> PartsBetween(i, IndicesOf(Len(t), LAMBDA j :
                   /\ j \in marks
                   /\ i <= j
                   /\ j <= end
                   /\ j = end \/ (t[j] = "," /\ Depth(t, marks, i, j) = 0)))]

\* ends: the brackets that close what was open at index i.
MembersIn(t, marks, i, ends) ==
    IF ends = {} THEN [ok |-> FALSE, end |-> 0, parts |-> <<>>]
    ELSE MembersUpTo(t, marks, i, Min(ends))

MembersOn(t, marks, i) ==
    MembersIn(t, marks, i,
              {e \in marks : i <= e /\ t[e] \in {"}", "]"} /\ Depth(t, marks, i, e) = -1})

\* The members or items from index i up to the bracket that closes them:
\* the index of that bracket and the parts; ok is false when no bracket
\* closes them.
MembersOf(t, i) == MembersOn(t, Structural(t, StringQuotes(t)), i)

RECURSIVE ValueAt(_, _)
RECURSIVE MemberAt(_, _, _)
RECURSIVE MembersFrom(_, _, _)
RECURSIVE ItemsFrom(_, _, _)
\* The member that a key and the value after its colon make, when the
\* value reaches the comma or bracket at index stop.
MemberOf(t, key, val, stop) ==
    IF val.ok /\ SkipSpace(t, val.next) = stop
    THEN [ok |-> TRUE, k |-> key.val.s, v |-> val.val]
    ELSE [ok |-> FALSE, k |-> <<>>, v |-> JUndefined]

ValueAfter(t, key, c) ==
    IF key.ok /\ At(t, c) = ":" THEN ValueAt(t, SkipSpace(t, c + 1)) ELSE SyntaxError

KeyedAt(t, key, stop) ==
    MemberOf(t, key, ValueAfter(t, key, IF key.ok THEN SkipSpace(t, key.next) ELSE 0), stop)

\* A member from index i up to the comma or bracket at index stop.
MemberAt(t, i, stop) == KeyedAt(t, StringAt(t, SkipSpace(t, i)), stop)

ObjectOf(t, acc, ms, rs) ==
    IF ms.ok /\ t[ms.end] = "}" /\ \A n \in 1..Len(rs) : rs[n].ok
    THEN Read(JObj(PutAll(acc, [n \in 1..Len(rs) |-> [k |-> rs[n].k, v |-> rs[n].v]])),
              ms.end + 1)
    ELSE SyntaxError

MembersAmong(t, acc, ms) ==
    ObjectOf(t, acc, ms,
             Once([n \in 1..Len(ms.parts) |->
                     MemberAt(t, ms.parts[n].from, ms.parts[n].stop)]))

\* The members of an object from index i (after white space), up to its }.
\* A key written twice keeps its first place and its last value.
MembersFrom(t, i, acc) == MembersAmong(t, acc, MembersOf(t, i))

ArrayOf(t, acc, ms, rs) ==
    IF /\ ms.ok
       /\ t[ms.end] = "]"
       /\ \A n \in 1..Len(rs) : rs[n].ok /\ SkipSpace(t, rs[n].next) = ms.parts[n].stop
    THEN Read(JArr(acc \o [n \in 1..Len(rs) |-> rs[n].val]), ms.end + 1)
    ELSE SyntaxError

ItemsAmong(t, acc, ms) ==
    ArrayOf(t, acc, ms,
            Once([n \in 1..Len(ms.parts) |-> ValueAt(t, SkipSpace(t, ms.parts[n].from))]))

\* The items of an array from index i (after white space), up to its ].
ItemsFrom(t, i, acc) == ItemsAmong(t, acc, MembersOf(t, i))

ValueAt(t, i) ==
    LET a == At(t, i)
    IN  CASE a = "\"" -> StringAt(t, i)
          [] a = "{" ->
                IF At(t, SkipSpace(t, i + 1)) = "}"
                THEN Read(JObj(<<>>), SkipSpace(t, i + 1) + 1)
                ELSE MembersFrom(t, SkipSpace(t, i + 1), <<>>)
          [] a = "[" ->
                IF At(t, SkipSpace(t, i + 1)) = "]"
                THEN Read(JArr(<<>>), SkipSpace(t, i + 1) + 1)
                ELSE ItemsFrom(t, SkipSpace(t, i + 1), <<>>)
          [] a = "true" -> Read(JBool(TRUE), i + 1)
          [] a = "false" -> Read(JBool(FALSE), i + 1)
          [] a = "null" -> Read(JNull, i + 1)
          [] a = "-" ->
                IF At(t, i + 1) \in DigitAtoms
                THEN Read(JNum(-NumberOf(t[i + 1])), i + 2) ELSE SyntaxError
          [] a \in DigitAtoms -> Read(JNum(NumberOf(a)), i + 1)
          [] OTHER -> SyntaxError

\* JSON.parse(text): a value, with nothing but white space around it.
JsonParse(t) ==
    LET val == ValueAt(t, SkipSpace(t, 1))
    IN  IF val.ok /\ SkipSpace(t, val.next) > Len(t) THEN val ELSE SyntaxError


(***************************************************************************)
(* Documents: the values a caller hands to validateThemeToken.  A caller    *)
(* starts from a document and changes it at most MaxEdits times.            *)
(***************************************************************************)
Entry(name, val) == [k |-> name, v |-> val]

\* A mode that gives val to each of the required properties.
ModeOf(val) == JObj([i \in 1..Len(CoreKeys) |-> Entry(CoreKeys[i], JStr(val))])

Chart1 == <<"chart", "-", "1">>

GoodCss ==
    JObj(<<Entry(<<"@layer base">>,
                 JObj(<<Entry(<<"body">>,
                              JObj(<<Entry(<<"letter", "-", "spacing">>,
                                           JStr(<<"0.5rem">>))>>))>>))>>)
BadCss == JObj(<<Entry(<<"@layer base">>, JObj(<<Entry(<<"body">>, JStr(<<"0.5rem">>))>>))>>)

Asset(vout, type) ==
    JObj(<<Entry(<<"vout">>, JNum(vout)), Entry(<<"type">>, JStr(type)),
           Entry(<<"slot">>, JStr(<<"sans">>))>>)
GoodBundle ==
    JObj(<<Entry(<<"version">>, JNum(1)),
           Entry(<<"assets">>, JArr(<<Asset(0, <<"font">>), Asset(2, <<"icon">>)>>))>>)
BadBundle ==
    JObj(<<Entry(<<"version">>, JNum(1)),
           Entry(<<"assets">>, JArr(<<Asset(-1, <<"font">>)>>))>>)

\* The smallest document: the four required members.
PlainDoc ==
    JObj(<<Entry(<<"$schema">>, JStr(THEME_TOKEN_SCHEMA_URL)),
           Entry(<<"name">>, JStr(<<"Plain">>)),
           Entry(<<"styles">>,
                 JObj(<<Entry(<<"light">>, ModeOf(White)),
                        Entry(<<"dark">>, ModeOf(Black))>>))>>)

\* A document with every optional member, additional properties in both
\* modes, a member the schema does not know, and a name and values that
\* need escaping.
FullDoc ==
    JObj(<<Entry(<<"styles">>,
                 JObj(<<Entry(<<"dark">>,
                              JObj(<<Entry(Chart1, JStr(<<"say ", "\"", "hi", "\"">>))>>
                                   \o ModeOf(Black).e)),
                        Entry(<<"light">>,
                              JObj(ModeOf(White).e
                                   \o <<Entry(Chart1, JStr(<<"a", "\\", "b", "\n", "c">>)),
                                        Entry(<<"font", "-", "sans">>, JStr(<<>>))>>))>>)),
           Entry(<<"name">>, JStr(<<"My ", "\"", "Theme", "\"", " ", "{", "1", "}">>)),
           Entry(<<"author">>, JStr(<<"me">>)),
           Entry(<<"extra">>, JNum(1)),
           Entry(<<"css">>, GoodCss),
           Entry(<<"bundle">>, GoodBundle),
           Entry(<<"$schema">>, JStr(THEME_TOKEN_SCHEMA_URL))>>)

InitialDocs == {PlainDoc, FullDoc}

TopKeys == {<<"$schema">>, <<"name">>, <<"author">>, <<"styles">>, <<"css">>, <<"bundle">>}
TopValues == {JStr(<<"x">>), JNum(1), JUndefined, GoodCss, BadCss, GoodBundle, BadBundle}
ModeNames == {<<"light">>, <<"dark">>}
StyleKeys == {<<"background">>, <<"radius">>, Chart1}
StyleValues == {JStr(<<"red">>), JStr(<<>>), JNum(1), JNull, JUndefined}
Others == {JUndefined, JNull, JStr(<<"x">>), JArr(<<>>)}

\* delete o[k]
Delete(o, k) == Filter(o, [i \in 1..Len(o) |-> o[i].k # k])

InitValidate ==
    /\ pc = "doc"
    /\ edits = 0
    /\ engine = "stack"
    /\ data \in InitialDocs
    /\ vres = NoResult /\ json = <<>> /\ rres = NoResult
    /\ NothingLoaded
    /\ NothingApplied
    /\ sheet = <<>> /\ css = <<>> /\ pres = NoResult
    /\ lookup = <<>> /\ value = <<>> /\ r1 = <<>> /\ r2 = <<>>

EditDoc(d) ==
    /\ pc = "doc"
    /\ edits < MaxEdits
    /\ data' = d
    /\ edits' = edits + 1
    /\ UNCHANGED <<pc, engine, parseVars, resolveVars, vres, json, rres, loadVars, rootStyle, hookVars>>

\* data[k] = v
SetTop == \E k \in TopKeys, v \in TopValues :
    /\ data.t = "object"
    /\ EditDoc(JObj(Put(data.e, k, v)))

\* delete data[k]
DeleteTop == \E k \in TopKeys :
    /\ data.t = "object"
    /\ HasOwn(data.e, k)
    /\ EditDoc(JObj(Delete(data.e, k)))

HasMode(d, m) ==
    /\ d.t = "object"
    /\ Lookup(d, <<"styles">>).t = "object"
    /\ Lookup(Lookup(d, <<"styles">>), m).t = "object"

\* d with styles[m] = mode
WithMode(d, m, mode) ==
    JObj(Put(d.e, <<"styles">>, JObj(Put(Lookup(d, <<"styles">>).e, m, mode))))

ModeIn(d, m) == Lookup(Lookup(d, <<"styles">>), m)

\* data.styles[m][k] = v
SetStyle == \E m \in ModeNames, k \in StyleKeys, v \in StyleValues :
    /\ HasMode(data, m)
    /\ EditDoc(WithMode(data, m, JObj(Put(ModeIn(data, m).e, k, v))))

\* delete data.styles[m][k]
DeleteStyle == \E m \in ModeNames :
    /\ HasMode(data, m)
    /\ \E k \in Keys(ModeIn(data, m).e) :
          EditDoc(WithMode(data, m, JObj(Delete(ModeIn(data, m).e, k))))

\* data.styles[m] = v
SetMode == \E m \in ModeNames, v \in Others :
    /\ data.t = "object"
    /\ Lookup(data, <<"styles">>).t = "object"
    /\ EditDoc(JObj(Put(data.e, <<"styles">>, JObj(Put(Lookup(data, <<"styles">>).e, m, v)))))

\* The caller hands over something that is not an object.
SetData == \E v \in Others :
    /\ data.t = "object"
    /\ EditDoc(v)

\* vres = validateThemeToken(data)
Validate ==
    /\ pc = "doc"
    /\ vres' = validateThemeToken(data)
    /\ pc' = "validated"
    /\ UNCHANGED <<edits, engine, parseVars, resolveVars, data, json, rres, loadVars, rootStyle, hookVars>>

\* json = toJson(data, pretty), for a document that is a ThemeToken.
ToJson == \E pretty \in BOOLEAN :
    /\ pc = "validated"
    /\ Prop(vres, "valid") = JBool(TRUE)
    /\ json' = toJson(data, pretty)
    /\ pc' = "serialized"
    /\ UNCHANGED <<edits, engine, parseVars, resolveVars, data, vres, rres, loadVars, rootStyle, hookVars>>

\* What JSON.parse throws.
SyntaxErrorThrown == [t |-> "throw", s |-> <<"SyntaxError">>, n |-> 0, e |-> <<>>]

\* rres = validateThemeToken(JSON.parse(json))
Reparse ==
    /\ pc = "serialized"
    /\ rres' = LET parsed == JsonParse(json)
               IN  IF parsed.ok THEN validateThemeToken(parsed.val) ELSE SyntaxErrorThrown
    /\ pc' = "reparsed"
    /\ UNCHANGED <<edits, engine, parseVars, resolveVars, data, vres, json, loadVars, rootStyle, hookVars>>

NextValidate ==
    \/ SetTop \/ DeleteTop \/ SetStyle \/ DeleteStyle \/ SetMode \/ SetData
    \/ Validate \/ ToJson \/ Reparse

SpecValidate == InitValidate /\ [][NextValidate]_vars


(***************************************************************************)
(* transform.ts: createThemeToken                                          *)
(***************************************************************************)
\* { ...a, ...b } for objects a and b; spreading undefined adds nothing.
Spread(a, b) == JObj(PutAll(PutAll(<<>>, a.e), b.e))

\* const defaults: the values, in the order of the required property names.
DefaultValues ==
    <<"oklch(1 0 0)", "oklch(0.145 0 0)", "oklch(1 0 0)", "oklch(0.145 0 0)",
      "oklch(1 0 0)", "oklch(0.145 0 0)", "oklch(0.205 0 0)", "oklch(0.985 0 0)",
      "oklch(0.97 0 0)", "oklch(0.205 0 0)", "oklch(0.97 0 0)", "oklch(0.556 0 0)",
      "oklch(0.97 0 0)", "oklch(0.205 0 0)", "oklch(0.577 0.245 27.325)",
      "oklch(0.577 0.245 27.325)", "oklch(0.922 0 0)", "oklch(0.922 0 0)",
      "oklch(0.708 0 0)", "0.625rem">>

defaults ==
    JObj([i \in 1..Len(CoreKeys) |-> [k |-> CoreKeys[i], v |-> JStr(<<DefaultValues[i]>>)]])

\* An object is truthy; undefined is not.
IsObject(v) == v.t = "object"

\* A createThemeToken whose dark mode starts from the merged light mode.
createThemeTokenLeaking(name, light, dark) ==
    LET lightStyles == Spread(defaults, light)
        darkStyles == Spread(lightStyles, dark)
    IN  JObj(<<[k |-> <<"$schema">>, v |-> JStr(THEME_TOKEN_SCHEMA_URL)],
               [k |-> <<"name">>, v |-> JStr(name)],
               [k |-> <<"styles">>,
                v |-> JObj(<<[k |-> <<"light">>, v |-> lightStyles],
                             [k |-> <<"dark">>, v |-> darkStyles]>>)]>>)

createThemeToken(name, light, dark) ==
    LET lightStyles == Spread(defaults, light)
        darkStyles == IF IsObject(dark) THEN Spread(defaults, dark)
                      ELSE Spread(lightStyles, JUndefined)
    IN  JObj(<<[k |-> <<"$schema">>, v |-> JStr(THEME_TOKEN_SCHEMA_URL)],
               [k |-> <<"name">>, v |-> JStr(name)],
               [k |-> <<"styles">>,
                v |-> JObj(<<[k |-> <<"light">>, v |-> lightStyles],
                             [k |-> <<"dark">>, v |-> darkStyles]>>)]>>)

(***************************************************************************)
(* transform.ts: toCss and toTailwindConfig.  The text is built line by    *)
(* line and joined with newlines.                                          *)
(***************************************************************************)
\* Object.entries(o): the entries in the order of enumeration.
ObjectEntries(o) == o.e

\* Every internal name declared under itself.
cssKeyUnmapped(key) == key

\* The name a property is declared under in a stylesheet.
cssKey(key) ==
    IF key = <<"letter", "-", "spacing">> THEN <<"tracking", "-", "normal">>
    ELSE IF key = <<"shadow", "-", "offset", "-", "x">> THEN <<"shadow", "-", "x">>
    ELSE IF key = <<"shadow", "-", "offset", "-", "y">> THEN <<"shadow", "-", "y">>
    ELSE key

\* The entries whose value is not undefined.
Defined(es) == Filter(es, [i \in 1..Len(es) |-> es[i].v.t # "undefined"])

\* `  --${name}: ${value};`
VarLine(name, val) == <<" ", " ", "-", "-">> \o name \o <<":", " ">> \o val \o <<";">>

\* The declarations of a mode in toCss.
CssModeLines(mode) ==
    LET es == Defined(ObjectEntries(mode))
    IN  [i \in 1..Len(es) |-> VarLine(cssKey(es[i].k), es[i].v.s)]

\* The declarations of a mode in toTailwindConfig.
TailwindModeLines(mode) ==
    LET es == Defined(ObjectEntries(mode))
    IN  [i \in 1..Len(es) |-> VarLine(es[i].k, es[i].v.s)]

\* One rule of @layer base: `  ${selector} {`, its declarations, `  }`.
RuleLines(rule) ==
    << <<" ", " ">> \o rule.k \o <<" ", "{">> >>
    \o [i \in 1..Len(ObjectEntries(rule.v)) |->
          <<" ", " ", " ", " ">> \o ObjectEntries(rule.v)[i].k \o <<":", " ">>
          \o ObjectEntries(rule.v)[i].v.s \o <<";">>]
    \o << <<" ", " ", "}">> >>

LayerBaseOf(theme) == Lookup(Lookup(theme, <<"css">>), <<"@layer base">>)

LayerLines(theme) ==
    IF ~IsObject(LayerBaseOf(theme)) THEN <<>>
    ELSE << <<>>, <<"@", "layer", " ", "base", " ", "{">> >>
         \o Concat([i \in 1..Len(ObjectEntries(LayerBaseOf(theme))) |->
                      RuleLines(ObjectEntries(LayerBaseOf(theme))[i])])
         \o << <<"}">> >>

StylesOf(theme, m) == Lookup(Lookup(theme, <<"styles">>), m)

toCss(theme) ==
    Join(<< <<":", "root", " ", "{">> >>
         \o CssModeLines(StylesOf(theme, <<"light">>))
         \o << <<"}">>, <<>>, <<".", "dark", " ", "{">> >>
         \o CssModeLines(StylesOf(theme, <<"dark">>))
         \o << <<"}">> >>
         \o LayerLines(theme),
         <<"\n">>)

colorKeys == SubSeq(CoreKeys, 1, Len(CoreKeys) - 1)

toTailwindConfig(theme) ==
    Join(<< <<"@", "theme", " ", "{">>, <<" ", " ", "/* Colors */">> >>
         \o [i \in 1..Len(colorKeys) |->
               <<" ", " ", "-", "-", "color", "-">> \o colorKeys[i]
               \o <<":", " ", "var", "(", "-", "-">> \o colorKeys[i] \o <<")", ";">>]
         \o << <<>>, <<" ", " ", "/* Border Radius */">>,
               <<" ", " ", "-", "-", "radius", "-", "sm", ":", " ", "calc(var(--radius) - 4px)", ";">>,
               <<" ", " ", "-", "-", "radius", "-", "md", ":", " ", "calc(var(--radius) - 2px)", ";">>,
               <<" ", " ", "-", "-", "radius", "-", "lg", ":", " ", "var", "(", "-", "-", "radius", ")", ";">>,
               <<" ", " ", "-", "-", "radius", "-", "xl", ":", " ", "calc(var(--radius) + 4px)", ";">>,
               <<"}">>, <<>>,
               <<"/* Light mode (default) */">>, <<":", "root", " ", "{">> >>
         \o TailwindModeLines(StylesOf(theme, <<"light">>))
         \o << <<"}">>, <<>>, <<"/* Dark mode */">>, <<".", "dark", " ", "{">> >>
         \o TailwindModeLines(StylesOf(theme, <<"dark">>))
         \o << <<"}">> >>,
         <<"\n">>)


(***************************************************************************)
(* transform.ts: toShadcnRegistry                                          *)
(***************************************************************************)
\* What `||` takes for true.
Truthy(v) ==
    CASE v.t \in {"undefined", "null"} -> FALSE
      [] v.t = "string" -> v.s # <<>>
      [] v.t = "number" -> v.n # 0
      [] v.t = "boolean" -> v.n = 1
      [] OTHER -> TRUE

\* a || b
OrElse(a, b) == IF Truthy(a) THEN a ELSE b

\* The dark value first.
getThemeValueDarkFirst(light, dark, key) ==
    OrElse(OrElse(Lookup(dark, key), Lookup(light, key)), JStr(<<>>))

getThemeValue(light, dark, key) ==
    OrElse(OrElse(Lookup(light, key), Lookup(dark, key)), JStr(<<>>))

RECURSIVE CollapseFrom(_, _)
\* .replace(/[^a-z0-9]+/g, "-") from index i: each maximal run of other
\* characters becomes one hyphen.
CollapseFrom(t, i) ==
    IF i > Len(t) THEN <<>>
    ELSE IF IsLowerAlnum(t[i]) THEN <<t[i]>> \o CollapseFrom(t, i + 1)
    ELSE IF i > 1 /\ ~IsLowerAlnum(t[i - 1]) THEN CollapseFrom(t, i + 1)
    ELSE <<"-">> \o CollapseFrom(t, i + 1)

RECURSIVE StripHyphens(_)
\* .replace(/^-+|-+$/g, "")
StripHyphens(t) ==
    IF t = <<>> THEN t
    ELSE IF Head(t) = "-" THEN StripHyphens(Tail(t))
    ELSE IF t[Len(t)] = "-" THEN StripHyphens(SubSeq(t, 1, Len(t) - 1))
    ELSE t

\* Lower case only.
toShadcnNameLowerOnly(name) == [i \in 1..Len(name) |-> ToLower(name[i])]

toShadcnName(name) ==
    StripHyphens(CollapseFrom([i \in 1..Len(name) |-> ToLower(name[i])], 1))

RegistryVarsFrom(es, acc) ==
    LET defined == Filter(es, [i \in 1..Len(es) |-> es[i].v.t # "undefined"])
    IN  PutAll(acc, [i \in 1..Len(defined) |->
                       [k |-> IF defined[i].k = <<"letter", "-", "spacing">>
                              THEN <<"tracking", "-", "normal">> ELSE defined[i].k,
                        v |-> defined[i].v]])

toRegistryVars(props) == JObj(RegistryVarsFrom(ObjectEntries(props), <<>>))

Str(atom) == JStr(<<atom>>)

toShadcnRegistry(theme) ==
    LET light == StylesOf(theme, <<"light">>)
        dark == StylesOf(theme, <<"dark">>)
        val(key, default) == OrElse(getThemeValue(light, dark, key), Str(default))
    IN  JObj(<<
          Entry(<<"$schema">>, Str("https://ui.shadcn.com/schema/registry-item.json")),
          Entry(<<"name">>, JStr(toShadcnName(Lookup(theme, <<"name">>).s))),
          Entry(<<"type">>, Str("registry:style")),
          Entry(<<"css">>,
                JObj(<<Entry(<<"@layer base">>,
                             JObj(<<Entry(<<"body">>,
                                          JObj(<<Entry(<<"letter", "-", "spacing">>,
                                                       Str("var(--tracking-normal)"))>>))>>))>>)),
          Entry(<<"cssVars">>,
                JObj(<<
                  Entry(<<"theme">>,
                        JObj(<<
                          Entry(<<"font", "-", "sans">>,
                                val(<<"font", "-", "sans">>, "Inter, sans-serif")),
                          Entry(<<"font", "-", "mono">>,
                                val(<<"font", "-", "mono">>, "monospace")),
                          Entry(<<"font", "-", "serif">>,
                                val(<<"font", "-", "serif">>, "serif")),
                          Entry(<<"radius">>, val(<<"radius">>, "0.5rem")),
                          Entry(<<"tracking", "-", "tighter">>,
                                Str("calc(var(--tracking-normal) - 0.05em)")),
                          Entry(<<"tracking", "-", "tight">>,
                                Str("calc(var(--tracking-normal) - 0.025em)")),
                          Entry(<<"tracking", "-", "wide">>,
                                Str("calc(var(--tracking-normal) + 0.025em)")),
                          Entry(<<"tracking", "-", "wider">>,
                                Str("calc(var(--tracking-normal) + 0.05em)")),
                          Entry(<<"tracking", "-", "widest">>,
                                Str("calc(var(--tracking-normal) + 0.1em)"))>>)),
                  Entry(<<"light">>,
                        JObj(PutAll(toRegistryVars(light).e,
                                    <<Entry(<<"tracking", "-", "normal">>,
                                            val(<<"letter", "-", "spacing">>, "0em")),
                                      Entry(<<"spacing">>, val(<<"spacing">>, "0.25rem"))>>))),
                  Entry(<<"dark">>, toRegistryVars(dark))>>))>>)


(***************************************************************************)
(* Calls of the transformers.  A caller writes the arguments of            *)
(* createThemeToken (a name, the light overrides and, or not, the dark     *)
(* overrides, each an object literal: properties in the order written),    *)
(* creates the theme, attaches css rules or not, and serializes it.        *)
(***************************************************************************)
TransformKeys ==
    {<<"radius">>, <<"font", "-", "sans">>, <<"letter", "-", "spacing">>,
     <<"shadow", "-", "offset", "-", "y">>, <<"1">>, <<"brand">>}
TransformValues == {JStr(<<"red">>), JStr(<<>>), JUndefined}

Args(name, light, dark, hasDark) ==
    [name |-> name, light |-> light, dark |-> dark, hasDark |-> hasDark]

InitialArgs ==
    {Args(<<"My", " ", "T", "heme", "!">>, <<>>, <<>>, FALSE),
     Args(<<"plain">>,
          <<Entry(<<"primary">>, JStr(<<"red">>)),
            Entry(<<"letter", "-", "spacing">>, JStr(<<"0.5rem">>)),
            Entry(Chart1, JStr(<<"blue">>))>>,
          <<Entry(<<"shadow", "-", "offset", "-", "x">>, JStr(<<"0">>)),
            Entry(<<"font", "-", "mono">>, JStr(<<"monospace">>)),
            Entry(<<"primary">>, JStr(<<"blue">>))>>,
          TRUE)}

\* The object an object literal with the properties es creates.
ObjectLiteral(es) == JObj(PutAll(<<>>, es))

InitTransform ==
    /\ pc = "args"
    /\ edits = 0
    /\ engine = "stack"
    /\ sheet \in InitialArgs
    /\ css = <<>>
    /\ pres = NoResult
    /\ lookup = <<>> /\ value = <<>> /\ r1 = <<>> /\ r2 = <<>>
    /\ data = NoResult /\ vres = NoResult /\ json = <<>> /\ rres = NoResult
    /\ NothingLoaded
    /\ NothingApplied

EditArgs(a) ==
    /\ pc = "args"
    /\ edits < MaxEdits
    /\ sheet' = a
    /\ edits' = edits + 1
    /\ UNCHANGED <<pc, engine, css, pres, resolveVars, validateVars, loadVars, rootStyle, hookVars>>

\* The caller writes one more property in the light overrides.
OverrideLight == \E k \in TransformKeys, v \in TransformValues :
    EditArgs([sheet EXCEPT !.light = Append(@, Entry(k, v))])

\* The caller writes one more property in the dark overrides.
OverrideDark == \E k \in TransformKeys, v \in TransformValues :
    /\ sheet.hasDark
    /\ EditArgs([sheet EXCEPT !.dark = Append(@, Entry(k, v))])

\* The caller passes dark overrides (an empty object to begin with), or
\* leaves the argument out.
PassDark == EditArgs([sheet EXCEPT !.hasDark = ~@, !.dark = <<>>])

\* data = createThemeToken(name, light, dark)
CreateThemeToken ==
    /\ pc = "args"
    /\ data' = createThemeToken(sheet.name, ObjectLiteral(sheet.light),
                                IF sheet.hasDark THEN ObjectLiteral(sheet.dark)
                                ELSE JUndefined)
    /\ pc' = "created"
    /\ UNCHANGED <<edits, engine, parseVars, resolveVars, vres, json, rres, loadVars, rootStyle, hookVars>>

\* data.css = { "@layer base": { body: { ... } } }
AttachCss ==
    /\ pc = "created"
    /\ ~HasOwn(data.e, <<"css">>)
    /\ data' = JObj(Put(data.e, <<"css">>, GoodCss))
    /\ UNCHANGED <<pc, edits, engine, parseVars, resolveVars, vres, json, rres, loadVars, rootStyle, hookVars>>

\* css = toCss(data)
ToCss ==
    /\ pc = "created"
    /\ css' = toCss(data)
    /\ pc' = "css"
    /\ UNCHANGED <<edits, engine, sheet, pres, resolveVars, validateVars, loadVars, rootStyle, hookVars>>

\* css = toTailwindConfig(data)
ToTailwindConfig ==
    /\ pc = "created"
    /\ css' = toTailwindConfig(data)
    /\ pc' = "tailwind"
    /\ UNCHANGED <<edits, engine, sheet, pres, resolveVars, validateVars, loadVars, rootStyle, hookVars>>

\* pres = toShadcnRegistry(data)
ToShadcnRegistry ==
    /\ pc = "created"
    /\ pres' = toShadcnRegistry(data)
    /\ pc' = "registry"
    /\ UNCHANGED <<edits, engine, sheet, css, resolveVars, validateVars, loadVars, rootStyle, hookVars>>

NextTransform ==
    \/ OverrideLight \/ OverrideDark \/ PassDark
    \/ CreateThemeToken \/ AttachCss
    \/ ToCss \/ ToTailwindConfig \/ ToShadcnRegistry

SpecTransform == InitTransform /\ [][NextTransform]_vars


(***************************************************************************)
(* Theme names and the name of the registry document.  A name is typed    *)
(* character by character; value holds it, r1 the registry name made of   *)
(* it and r2 the name made of r1.                                          *)
(***************************************************************************)
NameAtoms == {"a", "T", "1", "-", " ", "_"}

InitName ==
    /\ pc = "name"
    /\ edits = 0
    /\ engine = "stack"
    /\ sheet = Args(<<>>, <<>>, <<>>, FALSE)
    /\ css = <<>>
    /\ pres = NoResult
    /\ lookup = <<>> /\ value = <<>> /\ r1 = <<>> /\ r2 = <<>>
    /\ data = NoResult /\ vres = NoResult /\ json = <<>> /\ rres = NoResult
    /\ NothingLoaded
    /\ NothingApplied

\* The caller writes one more character of the name.
TypeName == \E a \in NameAtoms :
    /\ pc = "name"
    /\ Len(value) < MaxName
    /\ value' = Append(value, a)
    /\ UNCHANGED <<pc, edits, engine, parseVars, lookup, r1, r2, validateVars, loadVars, rootStyle, hookVars>>

\* r1 = toShadcnRegistry(createThemeToken(value)).name
RegistryName ==
    /\ pc = "name"
    /\ data' = createThemeToken(value, ObjectLiteral(<<>>), JUndefined)
    /\ pres' = toShadcnRegistry(data')
    /\ r1' = Lookup(pres', <<"name">>).s
    /\ pc' = "named"
    /\ UNCHANGED <<edits, engine, sheet, css, lookup, value, r2, vres, json, rres, loadVars, rootStyle, hookVars>>

\* r2 = toShadcnName(r1)
NameAgain ==
    /\ pc = "named"
    /\ r2' = toShadcnName(r1)
    /\ pc' = "renamed"
    /\ UNCHANGED <<edits, engine, parseVars, lookup, value, r1, validateVars, loadVars, rootStyle, hookVars>>

NextName == TypeName \/ RegistryName \/ NameAgain

SpecName == InitName /\ [][NextName]_vars


(***************************************************************************)
(* apply.ts: loadFontByOrigin and loadPatternByOrigin.                     *)
(*                                                                         *)
(* The program runs on one thread: the part of a call up to its first     *)
(* await is one step, and so is each continuation of a load after the     *)
(* promise it awaits settles.  A Map is a function on the keys it holds.  *)
(* An origin is written as its first eight characters and the rest.       *)
(***************************************************************************)
Origins == {<<"65481b3b", "b0_0">>, <<"65481b3b", "b0_1">>}

\* The data URLs a FileReader produces.
DataUrls == {<<"data:image/png;base64,", "AAAA">>}

MapHas(m, k) == k \in DOMAIN m
MapSet(m, k, v) == [x \in (DOMAIN m) \cup {k} |-> IF x = k THEN v ELSE m[x]]
MapDelete(m, k) == [x \in (DOMAIN m) \ {k} |-> m[x]]

\* A table of loading promises that never records one.
SetLoadingNever(table, origin, loadPromise) == table

\* fontLoadingPromises.set(origin, loadPromise)
SetLoading(table, origin, loadPromise) == MapSet(table, origin, loadPromise)

\* `OnChain-${origin.slice(0, 8)}`
generateFontFamilyName(origin) == <<"OnChain-", origin[1]>>

Pending(kind, origin, at, by) ==
    [kind |-> kind, origin |-> origin, at |-> at, value |-> <<>>, by |-> by]
Settled(p) == p.at \in {"fulfilled", "rejected"}

\* The unsettled loads of an origin.
LoadsInFlight(kind, origin) ==
    {p \in 1..Len(promises) :
        /\ promises[p].kind = kind
        /\ promises[p].origin = origin
        /\ ~Settled(promises[p])}

\* What fetch throws where the environment does not provide it.
FetchNotDefinedMsg == <<"ReferenceError: fetch is not defined">>

\* The promise of the async function that a call has just invoked: the
\* body has run up to its first await and waits for the fetch, or the call
\* of fetch has thrown, the finally clause has run and the promise is
\* rejected already.
Started(kind, origin, by) ==
    {Pending(kind, origin, "fetch", by),
     [Pending(kind, origin, "rejected", by) EXCEPT !.value = FetchNotDefinedMsg]}

\* A call: what it found on arrival, and the promise it returned (0 when
\* it returned the cached value).
Call(kind, origin, cached, inFlight, promise, val) ==
    [kind |-> kind, origin |-> origin, cached |-> cached, inFlight |-> inFlight,
     promise |-> promise, value |-> val]

InitLoad ==
    /\ pc = "loading"
    /\ edits = 0
    /\ engine = "stack"
    /\ sheet = Args(<<>>, <<>>, <<>>, FALSE)
    /\ css = <<>>
    /\ pres = NoResult
    /\ lookup = <<>> /\ value = <<>> /\ r1 = <<>> /\ r2 = <<>>
    /\ data = NoResult /\ vres = NoResult /\ json = <<>> /\ rres = NoResult
    /\ NothingLoaded
    /\ NothingApplied

otherVars == <<pc, edits, engine, parseVars, resolveVars, validateVars, rootStyle, hookVars>>

\* loadFontByOrigin(origin), up to the first await of the load it starts;
\* the table entry is set after the async function has been invoked.
LoadFontByOrigin == \E origin \in Origins :
    /\ Len(calls) < MaxCalls
    /\ LET arrived == Call("font", origin, MapHas(fontCache, origin),
                           LoadsInFlight("font", origin), 0, <<>>)
       IN  IF MapHas(fontCache, origin)
           THEN /\ calls' = Append(calls, [arrived EXCEPT !.value = fontCache[origin].familyName])
                /\ UNCHANGED <<fontLoadingPromises, promises>>
           ELSE IF MapHas(fontLoadingPromises, origin)
           THEN /\ calls' = Append(calls, [arrived EXCEPT !.promise = fontLoadingPromises[origin]])
                /\ UNCHANGED <<fontLoadingPromises, promises>>
           ELSE \E loadPromise \in Started("font", origin, Len(calls) + 1) :
                /\ promises' = Append(promises, loadPromise)
                /\ fontLoadingPromises' =
                      SetLoading(IF Settled(loadPromise)
                                 THEN MapDelete(fontLoadingPromises, origin)
                                 ELSE fontLoadingPromises,
                                 origin, Len(promises) + 1)
                /\ calls' = Append(calls, [arrived EXCEPT !.promise = Len(promises) + 1])
    /\ UNCHANGED <<fontCache, patternCache, patternLoadingPromises, documentFonts, otherVars>>

\* The load throws: finally deletes the table entry, the promise rejects.
FontLoadFails(p, thrown) ==
    /\ promises' = [promises EXCEPT ![p].at = "rejected", ![p].value = thrown]
    /\ fontLoadingPromises' = MapDelete(fontLoadingPromises, promises[p].origin)
    /\ UNCHANGED <<fontCache, documentFonts>>

\* await fetch(getContentUrl(origin)) settles.
FontFetched == \E p \in 1..Len(promises) :
    /\ promises[p].kind = "font" /\ promises[p].at = "fetch"
    /\ \/ /\ promises' = [promises EXCEPT ![p].at = "arrayBuffer"]
          /\ UNCHANGED <<fontCache, fontLoadingPromises, documentFonts>>
       \/ FontLoadFails(p, <<"Failed to fetch font: ", "404">>)
       \/ FontLoadFails(p, <<"TypeError: Failed to fetch">>)
    /\ UNCHANGED <<patternCache, patternLoadingPromises, calls, otherVars>>

\* await response.arrayBuffer() settles; the FontFace is made and loaded.
FontBuffered == \E p \in 1..Len(promises) :
    /\ promises[p].kind = "font" /\ promises[p].at = "arrayBuffer"
    /\ \/ /\ promises' = [promises EXCEPT ![p].at = "load"]
          /\ UNCHANGED <<fontCache, fontLoadingPromises, documentFonts>>
       \/ FontLoadFails(p, <<"TypeError: body stream">>)
    /\ UNCHANGED <<patternCache, patternLoadingPromises, calls, otherVars>>

\* await fontFace.load() settles; the font is registered and cached.
FontFaceLoaded == \E p \in 1..Len(promises) :
    /\ promises[p].kind = "font" /\ promises[p].at = "load"
    /\ \/ LET origin == promises[p].origin
              familyName == generateFontFamilyName(origin)
          IN  /\ documentFonts' = documentFonts \cup {familyName}
              /\ fontCache' = MapSet(fontCache, origin,
                                     [origin |-> origin, familyName |-> familyName])
              /\ fontLoadingPromises' = MapDelete(fontLoadingPromises, origin)
              /\ promises' = [promises EXCEPT ![p].at = "fulfilled", ![p].value = familyName]
       \/ FontLoadFails(p, <<"SyntaxError: font">>)
    /\ UNCHANGED <<patternCache, patternLoadingPromises, calls, otherVars>>

\* loadPatternByOrigin(origin), up to the first await of the load it starts.
LoadPatternByOrigin == \E origin \in Origins :
    /\ Len(calls) < MaxCalls
    /\ LET arrived == Call("pattern", origin, MapHas(patternCache, origin),
                           LoadsInFlight("pattern", origin), 0, <<>>)
       IN  IF MapHas(patternCache, origin) /\ patternCache[origin] # <<>>
           THEN /\ calls' = Append(calls, [arrived EXCEPT !.value = patternCache[origin]])
                /\ UNCHANGED <<patternLoadingPromises, promises>>
           ELSE IF MapHas(patternLoadingPromises, origin)
           THEN /\ calls' = Append(calls, [arrived EXCEPT !.promise = patternLoadingPromises[origin]])
                /\ UNCHANGED <<patternLoadingPromises, promises>>
           ELSE \E loadPromise \in Started("pattern", origin, Len(calls) + 1) :
                /\ promises' = Append(promises, loadPromise)
                /\ patternLoadingPromises' =
                      SetLoading(IF Settled(loadPromise)
                                 THEN MapDelete(patternLoadingPromises, origin)
                                 ELSE patternLoadingPromises,
                                 origin, Len(promises) + 1)
                /\ calls' = Append(calls, [arrived EXCEPT !.promise = Len(promises) + 1])
    /\ UNCHANGED <<patternCache, fontCache, fontLoadingPromises, documentFonts, otherVars>>

PatternLoadFails(p, thrown) ==
    /\ promises' = [promises EXCEPT ![p].at = "rejected", ![p].value = thrown]
    /\ patternLoadingPromises' = MapDelete(patternLoadingPromises, promises[p].origin)
    /\ UNCHANGED patternCache

\* await fetch(getContentUrl(origin)) settles.
PatternFetched == \E p \in 1..Len(promises) :
    /\ promises[p].kind = "pattern" /\ promises[p].at = "fetch"
    /\ \/ /\ promises' = [promises EXCEPT ![p].at = "blob"]
          /\ UNCHANGED <<patternCache, patternLoadingPromises>>
       \/ PatternLoadFails(p, <<"Failed to fetch pattern: ", "404">>)
       \/ PatternLoadFails(p, <<"TypeError: Failed to fetch">>)
    /\ UNCHANGED <<fontCache, fontLoadingPromises, documentFonts, calls, otherVars>>

\* await response.blob() settles; the FileReader starts.
PatternBlobRead == \E p \in 1..Len(promises) :
    /\ promises[p].kind = "pattern" /\ promises[p].at = "blob"
    /\ \/ /\ promises' = [promises EXCEPT ![p].at = "dataUrl"]
          /\ UNCHANGED <<patternCache, patternLoadingPromises>>
       \/ PatternLoadFails(p, <<"TypeError: body stream">>)
    /\ UNCHANGED <<fontCache, fontLoadingPromises, documentFonts, calls, otherVars>>

\* await blobToDataUrl(blob) settles; the data URL is cached.
PatternDataUrlRead == \E p \in 1..Len(promises) :
    /\ promises[p].kind = "pattern" /\ promises[p].at = "dataUrl"
    /\ \/ \E dataUrl \in DataUrls :
            /\ patternCache' = MapSet(patternCache, promises[p].origin, dataUrl)
            /\ patternLoadingPromises' = MapDelete(patternLoadingPromises, promises[p].origin)
            /\ promises' = [promises EXCEPT ![p].at = "fulfilled", ![p].value = dataUrl]
       \/ PatternLoadFails(p, <<"NotReadableError">>)
    /\ UNCHANGED <<fontCache, fontLoadingPromises, documentFonts, calls, otherVars>>

NextLoad ==
    \/ LoadFontByOrigin \/ FontFetched \/ FontBuffered \/ FontFaceLoaded
    \/ LoadPatternByOrigin \/ PatternFetched \/ PatternBlobRead \/ PatternDataUrlRead

SpecLoad == InitLoad /\ [][NextLoad]_vars


(***************************************************************************)
(* fetch.ts: fetchThemeByOrigin.  value is the origin asked for, sheet    *)
(* what the network will answer, data the decoded body, vres its          *)
(* validation and rres the settlement of the promise the call returned.   *)
(***************************************************************************)
\* What the server holds at the URL of an origin.
Bodies ==
    {toJson(PlainDoc, FALSE), toJson(FullDoc, TRUE),
     toJson(JObj(Put(PlainDoc.e, <<"extra">>, JNum(1))), FALSE),
     toJson(JObj(Put(PlainDoc.e, <<"name">>, JNum(1))), FALSE),
     toJson(Lookup(PlainDoc, <<"styles">>), FALSE),
     <<>>, <<"null">>, <<"0">>, <<"false">>, <<"\"", "\"">>, <<"\"", "x", "\"">>,
     <<"{">>, <<"{", "}">>, <<"[", "]">>, <<"<", "html", ">">>}

\* The answer to a request: the network may be down, the status may be
\* any, and the body may fail to arrive.
Responses ==
    [network : {"up", "down"}, status : {200, 404, 500},
     stream : {"ok", "broken"}, body : Bodies]

\* response.ok
ResponseOk(response) == response.status \in 200..299

\* The outcome of the try block: a value returned or an exception thrown.
Return(val) == [thrown |-> FALSE, val |-> val]
Throw == [thrown |-> TRUE, val |-> JUndefined]

Fulfilled(val) == [state |-> "fulfilled", val |-> val]
Rejected == [state |-> "rejected", val |-> JUndefined]
NotSettled == [state |-> "pending", val |-> JUndefined]

\* A function without the catch clause.
CatchNothing(outcome) == IF outcome.thrown THEN Rejected ELSE Fulfilled(outcome.val)

\* catch { return null }
Catch(outcome) == IF outcome.thrown THEN Fulfilled(JNull) ELSE Fulfilled(outcome.val)

\* { theme: validation.theme, outpoint: origin, origin }
PublishedTheme(theme, origin) ==
    JObj(<<Entry(<<"theme">>, theme),
           Entry(<<"outpoint">>, JStr(origin)),
           Entry(<<"origin">>, JStr(origin))>>)

InitFetch ==
    /\ pc = "idle"
    /\ edits = 0
    /\ engine = "stack"
    /\ sheet \in Responses
    /\ css = <<>>
    /\ pres = NoResult
    /\ lookup = <<>> /\ value \in Origins /\ r1 = <<>> /\ r2 = <<>>
    /\ data = NoResult /\ vres = NoResult /\ json = <<>> /\ rres = NotSettled
    /\ NothingLoaded
    /\ NothingApplied

\* fetchThemeByOrigin(value) is called: the request is sent.
FetchThemeByOrigin ==
    /\ pc = "idle"
    /\ pc' = "fetching"
    /\ UNCHANGED <<edits, engine, parseVars, resolveVars, validateVars, loadVars, rootStyle, hookVars>>

\* await fetch(getOrdfsUrl(origin)) settles.
ResponseArrives ==
    /\ pc = "fetching"
    /\ IF sheet.network = "down"
       THEN pc' = "settled" /\ rres' = Catch(Throw)
       ELSE IF ~ResponseOk(sheet)
       THEN pc' = "settled" /\ rres' = Catch(Return(JNull))
       ELSE pc' = "decoding" /\ rres' = rres
    /\ UNCHANGED <<edits, engine, parseVars, resolveVars, data, vres, json, loadVars, rootStyle, hookVars>>

\* await response.json() settles; the body is validated.
JsonDecoded ==
    /\ pc = "decoding"
    /\ pc' = "settled"
    /\ LET parsed == JsonParse(sheet.body)
       IN  IF sheet.stream = "broken" \/ ~parsed.ok
           THEN /\ rres' = Catch(Throw)
                /\ UNCHANGED <<data, vres, json>>
           ELSE /\ json' = sheet.body
                /\ data' = parsed.val
                /\ vres' = IF Truthy(parsed.val) THEN validateThemeToken(parsed.val)
                           ELSE NoResult
                /\ rres' = Catch(Return(
                              IF Truthy(parsed.val) /\ Prop(vres', "valid") = JBool(TRUE)
                              THEN PublishedTheme(Prop(vres', "theme"), value)
                              ELSE JNull))
    /\ UNCHANGED <<edits, engine, parseVars, resolveVars, loadVars, rootStyle, hookVars>>

NextFetch == FetchThemeByOrigin \/ ResponseArrives \/ JsonDecoded

SpecFetch == InitFetch /\ [][NextFetch]_vars


(***************************************************************************)
(* apply.ts: applyTheme and clearTheme on document.documentElement.       *)
(* rootStyle maps the name of a custom property to its value.             *)
(***************************************************************************)
\* style.setProperty(name, value): the empty string removes the property.
SetProperty(style, name, val) ==
    IF val = <<>> THEN MapDelete(style, name) ELSE MapSet(style, name, val)

\* `--${cssKey}`
CustomProperty(key) == <<"-", "-">> \o cssKey(key)

\* The loop of applyTheme over Object.entries(styles): SetProperty for each
\* entry whose value is a string, so that the last call for a custom
\* property decides it.
ApplyFrom(es, style) ==
    LET strings == {i \in 1..Len(es) : es[i].v.t = "string"}
        last    == {i \in strings : \A j \in strings :
                        j > i => CustomProperty(es[j].k) # CustomProperty(es[i].k)}
        touched == {CustomProperty(es[i].k) : i \in last}
        kept    == {i \in last : es[i].v.s # <<>>}
    IN  [name \in ((DOMAIN style) \ touched) \cup {CustomProperty(es[i].k) : i \in kept} |->
            IF name \in touched
            THEN es[CHOOSE i \in kept : CustomProperty(es[i].k) = name].v.s
            ELSE style[name]]

applyTheme(styles, style) == ApplyFrom(ObjectEntries(styles), style)

\* applyThemeMode(theme, mode)
applyThemeMode(theme, mode, style) == applyTheme(StylesOf(theme, mode), style)

defaultKeys ==
    << <<"background">>,
       <<"foreground">>,
       <<"card">>,
       <<"card", "-", "foreground">>,
       <<"popover">>,
       <<"popover", "-", "foreground">>,
       <<"primary">>,
       <<"primary", "-", "foreground">>,
       <<"secondary">>,
       <<"secondary", "-", "foreground">>,
       <<"muted">>,
       <<"muted", "-", "foreground">>,
       <<"accent">>,
       <<"accent", "-", "foreground">>,
       <<"destructive">>,
       <<"destructive", "-", "foreground">>,
       <<"border">>,
       <<"input">>,
       <<"ring">>,
       <<"radius">>,
       <<"chart", "-", "1">>,
       <<"chart", "-", "2">>,
       <<"chart", "-", "3">>,
       <<"chart", "-", "4">>,
       <<"chart", "-", "5">>,
       <<"sidebar">>,
       <<"sidebar", "-", "foreground">>,
       <<"sidebar", "-", "primary">>,
       <<"sidebar", "-", "primary", "-", "foreground">>,
       <<"sidebar", "-", "accent">>,
       <<"sidebar", "-", "accent", "-", "foreground">>,
       <<"sidebar", "-", "border">>,
       <<"sidebar", "-", "ring">>,
       <<"font", "-", "sans">>,
       <<"font", "-", "serif">>,
       <<"font", "-", "mono">>,
       <<"letter", "-", "spacing">>,
       <<"spacing">>,
       <<"shadow", "-", "color">>,
       <<"shadow", "-", "opacity">>,
       <<"shadow", "-", "blur">>,
       <<"shadow", "-", "spread">>,
       <<"shadow", "-", "offset", "-", "x">>,
       <<"shadow", "-", "offset", "-", "y">> >>

\* The loop of clearTheme over keysToRemove: style.removeProperty of the
\* custom property of each key.
RemoveAll(keys, style) ==
    LET removed == {CustomProperty(keys[i]) : i \in 1..Len(keys)}
    IN  [name \in (DOMAIN style) \ removed |-> style[name]]

\* A clearTheme that removes every custom property.
clearEverything(keys, style) == <<>>

\* clearTheme(keys): keys is a sequence of names, or undefined.
clearTheme(keys, style) ==
    RemoveAll(IF keys = JUndefined THEN defaultKeys ELSE keys, style)

InitApply ==
    /\ InitTransform

\* applyThemeMode(data, mode)
ApplyThemeMode == \E mode \in ModeNames :
    /\ pc = "created"
    /\ rootStyle' = applyThemeMode(data, mode, rootStyle)
    /\ value' = mode
    /\ pc' = "applied"
    /\ UNCHANGED <<edits, engine, parseVars, lookup, r1, r2, validateVars, loadVars, hookVars>>

\* clearTheme()
ClearTheme ==
    /\ pc = "applied"
    /\ rootStyle' = clearTheme(JUndefined, rootStyle)
    /\ pc' = "cleared"
    /\ UNCHANGED <<edits, engine, parseVars, resolveVars, validateVars, loadVars, hookVars>>

NextApply ==
    \/ OverrideLight \/ OverrideDark \/ PassDark \/ CreateThemeToken
    \/ ApplyThemeMode \/ ClearTheme

SpecApply == InitApply /\ [][NextApply]_vars


(***************************************************************************)
(* The React hook useThemeToken and the component ThemeTokenProvider.     *)
(*                                                                         *)
(* sheet.component says which of the two is mounted.  A setState call is  *)
(* an assignment to the state variable; a call of loadTheme is one step   *)
(* up to its await, and one step for each continuation.  The document     *)
(* that fetchThemeByOrigin resolves to is its caller's to choose: null    *)
(* or a published theme.                                                   *)
(***************************************************************************)
Components == {"useThemeToken", "ThemeTokenProvider"}

\* `Theme not found for origin: ${origin}` and `Theme not found: ${origin}`
NotFoundError(component, origin) ==
    JStr((IF component = "useThemeToken" THEN <<"Theme not found for origin: ">>
          ELSE <<"Theme not found: ">>) \o origin)

\* What loadThemeAssets throws when an asset cannot be loaded.
AssetError == JStr(<<"Failed to fetch font: ", "404">>)

InitHook ==
    /\ pc = "mounted"
    /\ edits = 0
    /\ engine = "stack"
    /\ sheet \in [component : Components]
    /\ css = <<>>
    /\ pres = NoResult
    /\ lookup = <<>> /\ value = <<>> /\ r1 = <<>> /\ r2 = <<>>
    /\ data = NoResult /\ vres = NoResult /\ json = <<>> /\ rres = NoResult
    /\ NothingLoaded
    /\ NothingApplied

hookOtherVars == <<pc, edits, engine, parseVars, resolveVars, validateVars, loadVars>>

\* loadTheme(origin) up to await fetchThemeByOrigin(origin).
LoadTheme == \E origin \in Origins :
    /\ Len(loads) < MaxLoads
    /\ isLoading' = TRUE
    /\ error' = JNull
    /\ loads' = Append(loads, [origin |-> origin, at |-> "fetch"])
    /\ wasReset' = FALSE
    /\ UNCHANGED <<activeTheme, activeOrigin, localStorage, rootStyle, hookOtherVars>>

\* The catch and finally clauses of a load that threw.
LoadFailed(l, thrown) ==
    /\ error' = thrown
    /\ isLoading' = FALSE
    /\ loads' = [loads EXCEPT ![l].at = "settled"]

\* await fetchThemeByOrigin(origin) settles, in useThemeToken: the theme
\* is applied, stored and the load is over.
HookThemeFetched == \E l \in 1..Len(loads), mode \in ModeNames :
    /\ sheet.component = "useThemeToken"
    /\ loads[l].at = "fetch"
    /\ \/ /\ rootStyle' = applyThemeMode(PlainDoc, mode, rootStyle)
          /\ activeTheme' = PlainDoc
          /\ activeOrigin' = JStr(loads[l].origin)
          /\ localStorage' = JStr(loads[l].origin)
          /\ isLoading' = FALSE
          /\ loads' = [loads EXCEPT ![l].at = "settled"]
          /\ UNCHANGED error
       \/ /\ LoadFailed(l, NotFoundError(sheet.component, loads[l].origin))
          /\ UNCHANGED <<rootStyle, activeTheme, activeOrigin, localStorage>>
    /\ UNCHANGED <<wasReset, hookOtherVars>>

\* await fetchThemeByOrigin(origin) settles, in ThemeTokenProvider: the
\* theme is stored and applied, and its assets start loading.
ProviderThemeFetched == \E l \in 1..Len(loads), mode \in ModeNames :
    /\ sheet.component = "ThemeTokenProvider"
    /\ loads[l].at = "fetch"
    /\ \/ /\ activeTheme' = PlainDoc
          /\ activeOrigin' = JStr(loads[l].origin)
          /\ localStorage' = JStr(loads[l].origin)
          /\ rootStyle' = applyThemeMode(PlainDoc, mode, rootStyle)
          /\ loads' = [loads EXCEPT ![l].at = "assets"]
          /\ UNCHANGED <<error, isLoading>>
       \/ /\ LoadFailed(l, NotFoundError(sheet.component, loads[l].origin))
          /\ UNCHANGED <<rootStyle, activeTheme, activeOrigin, localStorage>>
    /\ UNCHANGED <<wasReset, hookOtherVars>>

\* await applyThemeModeWithAssets(published.theme, mode) settles.
ProviderAssetsLoaded == \E l \in 1..Len(loads) :
    /\ sheet.component = "ThemeTokenProvider"
    /\ loads[l].at = "assets"
    /\ \/ /\ isLoading' = FALSE
          /\ loads' = [loads EXCEPT ![l].at = "settled"]
          /\ UNCHANGED error
       \/ LoadFailed(l, AssetError)
    /\ UNCHANGED <<rootStyle, activeTheme, activeOrigin, localStorage, wasReset, hookOtherVars>>

\* resetTheme()
ResetTheme ==
    /\ rootStyle' = clearTheme(JUndefined, rootStyle)
    /\ activeTheme' = JNull
    /\ activeOrigin' = JNull
    /\ error' = JNull
    /\ localStorage' = JNull
    /\ wasReset' = TRUE
    /\ UNCHANGED <<isLoading, loads, hookOtherVars>>

NextHook ==
    \/ LoadTheme \/ HookThemeFetched \/ ProviderThemeFetched \/ ProviderAssetsLoaded
    \/ ResetTheme

SpecHook == InitHook /\ [][NextHook]_vars


(***************************************************************************)
(* The stylesheet of a document read back: createThemeToken, toCss and    *)
(* parseCss in a row, on overrides that include names and values a        *)
(* stylesheet does not carry through.                                     *)
(***************************************************************************)
RoundKeys ==
    {<<"letter", "-", "spacing">>, <<"1">>,
     <<"tracking", "-", "normal">>, <<"color", "-", "brand">>}
RoundValues ==
    {JStr(<<"red">>), JStr(<<>>), JStr(Ref(<<"radius">>)), JStr(<<" ", "red">>),
     JStr(<<"a", ";", "b">>), JStr(<<"a", "}", "b">>)}

\* The caller writes one more property in the light overrides.
WriteLight == \E k \in RoundKeys, v \in RoundValues :
    EditArgs([sheet EXCEPT !.light = Append(@, Entry(k, v))])

\* The caller writes one more property in the dark overrides.
WriteDark == \E k \in RoundKeys, v \in RoundValues :
    /\ sheet.hasDark
    /\ EditArgs([sheet EXCEPT !.dark = Append(@, Entry(k, v))])

\* pres = parseCss(css, data.name)
ParseBack ==
    /\ pc = "css"
    /\ pres' = parseCss(css, Lookup(data, <<"name">>).s, engine)
    /\ pc' = IF pres' = Diverged THEN "diverged" ELSE "parsed"
    /\ UNCHANGED <<edits, engine, sheet, css, resolveVars, validateVars, loadVars, rootStyle, hookVars>>

NextRound ==
    \/ WriteLight \/ WriteDark \/ PassDark
    \/ CreateThemeToken \/ AttachCss
    \/ ToCss \/ ParseBack

SpecRound == InitTransform /\ [][NextRound]_vars


(***************************************************************************)
(* Properties.                                                             *)
(***************************************************************************)
IsValid(r) == Prop(r, "valid") = JBool(TRUE)
IsInvalid(r) ==
    /\ r.t = "object"
    /\ Keys(r.e) = {<<"valid">>, <<"error">>}
    /\ Prop(r, "valid") = JBool(FALSE)
    /\ Prop(r, "error").t = "string"
    /\ Prop(r, "error").s # <<>>
IsSuccess(r) ==
    /\ r.t = "object"
    /\ Keys(r.e) = {<<"valid">>, <<"theme">>, <<"metadata">>}
    /\ IsValid(r)
    /\ Prop(r, "theme").t = "object"
    /\ Prop(r, "metadata").t = "object"
ErrorOf(r) == Prop(r, "error").s
LightOf(r) == Prop(Prop(Prop(r, "theme"), "styles"), "light")
DarkOf(r) == Prop(Prop(Prop(r, "theme"), "styles"), "dark")
Contains(t, lit) == \E i \in 1..Len(t) : StartsAt(t, lit, i)

\* What the author wrote in a block: the names declared, the values.
Declares(ds, name) == \E i \in 1..Len(ds) : ds[i].n = name
Literals == {White, Black, <<"red">>, <<"blue">>, <<"0.5rem">>}
AllLiteral(ds) == \A i \in 1..Len(ds) : ds[i].v \in Literals
DeclaresRequired(ds) == \A i \in 1..Len(requiredProps) : Declares(ds, requiredProps[i])

RECURSIVE ChainEnds(_, _, _)
\* Following the references from the value v through the table ends within
\* fuel steps: at a value that is no bare reference, at a built-in or at a
\* name the table does not resolve.
ChainEnds(table, v, fuel) ==
    IF ~VarMatch(v) THEN TRUE
    ELSE IF RefName(v) \in {<<"color", "-", "white">>, <<"color", "-", "black">>} THEN TRUE
    ELSE IF ~HasOwn(table, RefName(v)) THEN TRUE
    ELSE IF Get(table, RefName(v)) = <<>> THEN TRUE
    ELSE IF fuel = 0 THEN FALSE
    ELSE ChainEnds(table, Get(table, RefName(v)), fuel - 1)

\* No chain of references of the table comes back to a name it has visited.
Acyclic(table) == \A i \in 1..Len(table) : ChainEnds(table, table[i].v, Len(table))

\* What the claims call a well-formed document, member by member.
IsString(v) == v.t = "string"
OptionalString(v) == v.t \in {"undefined", "string"}
WellTypedCss(v) ==
    \/ v.t = "undefined"
    \/ /\ v.t = "object"
       /\ LET base == Lookup(v, <<"@layer base">>)
          IN  \/ base.t = "undefined"
              \/ /\ base.t = "object"
                 /\ \A i \in 1..Len(base.e) :
                       /\ base.e[i].v.t = "object"
                       /\ \A j \in 1..Len(base.e[i].v.e) : IsString(base.e[i].v.e[j].v)
WellTypedAsset(a) ==
    /\ a.t = "object"
    /\ Lookup(a, <<"vout">>).t = "number" /\ Lookup(a, <<"vout">>).n >= 0
    /\ Lookup(a, <<"type">>) \in
         {JStr(<<"font">>), JStr(<<"pattern">>), JStr(<<"wallpaper">>), JStr(<<"icon">>)}
    /\ IsString(Lookup(a, <<"slot">>))
WellTypedBundle(v) ==
    \/ v.t = "undefined"
    \/ /\ v.t = "object"
       /\ Lookup(v, <<"version">>) = JNum(1)
       /\ Lookup(v, <<"assets">>).t = "array"
       /\ \A i \in 1..Len(Lookup(v, <<"assets">>).e) :
             WellTypedAsset(Lookup(v, <<"assets">>).e[i].v)
WellFormedMode(m) ==
    /\ m.t = "object"
    /\ \A i \in 1..Len(CoreKeys) : IsString(Lookup(m, CoreKeys[i]))
    /\ \A i \in 1..Len(m.e) : IsString(m.e[i].v)
WellFormed(d) ==
    /\ d.t = "object"
    /\ IsString(Lookup(d, <<"$schema">>))
    /\ IsString(Lookup(d, <<"name">>))
    /\ OptionalString(Lookup(d, <<"author">>))
    /\ WellTypedCss(Lookup(d, <<"css">>))
    /\ WellTypedBundle(Lookup(d, <<"bundle">>))
    /\ Lookup(d, <<"styles">>).t = "object"
    /\ \A m \in ModeNames : WellFormedMode(ModeIn(d, m))

ThemeOf(r) == Prop(r, "theme")

\* C1: validateThemeToken(data) returns {valid: true, theme} exactly when
\* data is well formed (string $schema and name, optional string author,
\* well-typed optional css and bundle, both modes giving a string to each of
\* the 20 required names and to every additional name); the theme's light
\* and dark maps then hold every property of the input with its value; in
\* every other case it returns {valid: false, error} and no theme.
C1_ValidIffWellFormed ==
    vres # NoResult =>
        IF WellFormed(data)
        THEN /\ vres.t = "object"
             /\ Keys(vres.e) = {<<"valid">>, <<"theme">>}
             /\ IsValid(vres)
             /\ \A m \in ModeNames :
                   /\ ModeIn(ThemeOf(vres), m).t = "object"
                   /\ \A i \in 1..Len(ModeIn(data, m).e) :
                         Lookup(ModeIn(ThemeOf(vres), m), ModeIn(data, m).e[i].k)
                            = ModeIn(data, m).e[i].v
        ELSE IsInvalid(vres)

C1_Witness ==
    /\ pc = "validated"
    /\ IsValid(vres)
    /\ Lookup(ModeIn(data, <<"light">>), Chart1) = JStr(<<"a", "\\", "b", "\n", "c">>)
    /\ Lookup(ModeIn(ThemeOf(vres), <<"light">>), Chart1) = JStr(<<"a", "\\", "b", "\n", "c">>)
    /\ Lookup(data, <<"author">>) = JUndefined

RequiredValues(d) ==
    {Lookup(ModeIn(d, m), CoreKeys[i]) : m \in ModeNames, i \in 1..Len(CoreKeys)}

\* C2 as stated: every document validateThemeToken accepts has, in both
\* modes, a non-empty string for each of the 20 required names.
C2_RequiredNonEmpty ==
    (vres # NoResult /\ IsValid(vres)) =>
        \A v \in RequiredValues(data) : IsString(v) /\ v.s # <<>>

\* C2, amended: every document validateThemeToken accepts has, in both
\* modes, a string (possibly the empty string) for each of the 20 required
\* names.
C2_RequiredStrings ==
    (vres # NoResult /\ IsValid(vres)) =>
        \A v \in RequiredValues(data) : IsString(v)

C2_Witness ==
    /\ pc = "validated"
    /\ IsValid(vres)
    /\ Lookup(ModeIn(data, <<"dark">>), <<"radius">>) = JStr(<<>>)
    /\ Lookup(ModeIn(ThemeOf(vres), <<"dark">>), <<"radius">>) = JStr(<<>>)

RECURSIVE Leaves(_, _)
\* The content of a value: its leaves by path.  A property that is undefined
\* counts as absent.
Leaves(v, path) ==
    IF v.t = "undefined" THEN {}
    ELSE IF v.t \in {"object", "array"}
    THEN {<<path, v.t>>}
         \cup UNION {Leaves(v.e[i].v,
                            Append(path, IF v.t = "array" THEN <<ToString(i)>> ELSE v.e[i].k))
                     : i \in 1..Len(v.e)}
    ELSE {<<path, [t |-> v.t, s |-> v.s, n |-> v.n]>>}

SameContent(a, b) == Leaves(a, <<>>) = Leaves(b, <<>>)

\* The css rules of a document: the rule blocks of its "@layer base".
CssRulesOf(d) == Lookup(Lookup(d, <<"css">>), <<"@layer base">>)

\* C3: for a document d that validateThemeToken accepts and for pretty true
\* and false, validateThemeToken(JSON.parse(toJson(d, pretty))) is valid and
\* its theme has the name, author, styles of both modes (additional
\* properties included) and css rules of d.
C3_JsonRoundTrip ==
    pc = "reparsed" =>
        /\ IsValid(rres)
        /\ \A k \in {<<"name">>, <<"author">>, <<"styles">>} :
              SameContent(Lookup(ThemeOf(rres), k), Lookup(data, k))
        /\ SameContent(CssRulesOf(ThemeOf(rres)), CssRulesOf(data))

C3_Witness ==
    /\ pc = "reparsed"
    /\ json = toJson(data, TRUE)
    /\ IsValid(rres)
    /\ Lookup(data, <<"name">>) = JStr(<<"My ", "\"", "Theme", "\"", " ", "{", "1", "}">>)
    /\ Lookup(ThemeOf(rres), <<"name">>) = Lookup(data, <<"name">>)
    /\ Lookup(ModeIn(ThemeOf(rres), <<"light">>), Chart1) = JStr(<<"a", "\\", "b", "\n", "c">>)
    /\ Lookup(data, <<"css">>) = GoodCss
    /\ Lookup(ThemeOf(rres), <<"css">>) = GoodCss

\* C4: a stylesheet with a :root block and no .dark block that parses has
\* a dark mode equal to its light mode, hasDarkMode false and hasLightMode
\* true; and a :root block that declares the four required properties with
\* literal values parses although the .dark block is absent.
C4_FallbackLaw ==
    (pc = "parsed" /\ sheet.hasRoot /\ ~sheet.hasDark) =>
        /\ IsValid(pres) =>
            /\ DarkOf(pres) = LightOf(pres)
            /\ Prop(Prop(pres, "metadata"), "hasDarkMode") = JBool(FALSE)
            /\ Prop(Prop(pres, "metadata"), "hasLightMode") = JBool(TRUE)
        /\ (DeclaresRequired(sheet.root) /\ AllLiteral(sheet.root)) => IsSuccess(pres)

C4_Witness ==
    /\ pc = "parsed" /\ sheet.hasRoot /\ ~sheet.hasDark
    /\ IsSuccess(pres)
    /\ StyleMap(LightOf(pres)) =
         [k \in {<<"background">>, <<"foreground">>, <<"primary">>, <<"radius">>, <<"a">>, <<"b">>}
            |-> IF k \in {<<"background">>, <<"a">>, <<"b">>} THEN White
                ELSE IF k = <<"foreground">> THEN Black
                ELSE IF k = <<"primary">> THEN <<"red">> ELSE <<"0.5rem">>]
    /\ DarkOf(pres) = LightOf(pres)

\* C5: every call of parseCss returns, and returns either
\* {valid: true, theme, metadata} or {valid: false, error} with a message
\* and nothing else.
C5_AlwaysReturnsAResult ==
    pc # "edit" => (pc = "parsed" /\ (IsSuccess(pres) \/ IsInvalid(pres)))

\* C6: a text without a :root block gives valid: false with an error that
\* names the :root block, whatever else the text holds.
C6_MissingRoot ==
    (pc # "edit" /\ ~sheet.hasRoot) =>
        /\ pc = "parsed"
        /\ IsInvalid(pres)
        /\ Contains(ErrorOf(pres), <<":", "root">>)

C6_Witness ==
    /\ pc = "parsed" /\ ~sheet.hasRoot
    /\ sheet.hasDark /\ DeclaresRequired(sheet.dark) /\ AllLiteral(sheet.dark)
    /\ ErrorOf(pres) = MissingRootMsg

\* The first of background, foreground, primary, radius the block lacks.
FirstUndeclared(ds) ==
    requiredProps[Min({i \in 1..Len(requiredProps) : ~Declares(ds, requiredProps[i])})]

\* C7: when the :root block is present and lacks one of background,
\* foreground, primary, radius, the result is valid: false with the error
\* "Missing required property: --<p>", <p> the first name absent, whatever
\* the .dark block holds and whatever references are unresolved.
C7_MissingRequiredFirst ==
    (pc # "edit" /\ sheet.hasRoot /\ ~DeclaresRequired(sheet.root)) =>
        /\ pc = "parsed"
        /\ pres = Invalid(<<"Missing required property: ", "-", "-">>
                          \o FirstUndeclared(sheet.root))

\* A value that is still a reference: what resolveVar takes for a bare
\* reference, or what starts with "var(".
IsReference(v) == VarMatch(v) \/ StartsWith(v, <<"var", "(">>)

ReferencesIn(props, suffix) ==
    LET refs == Filter(props, [i \in 1..Len(props) |-> IsReference(props[i].v)])
    IN  [n \in 1..Len(refs) |-> <<"-", "-">> \o refs[n].k \o suffix]

FirstN(q, n) == SubSeq(q, 1, IF Len(q) < n THEN Len(q) ELSE n)

\* C8: with the :root block and the four required properties present,
\* parseCss fails exactly when a parsed value of either mode is still a
\* reference; the error lists the first three entries of U (light entries,
\* then dark entries marked "(dark)") and "and |U|-3 more" exactly when
\* |U| > 3; no value of a returned theme is an unresolved reference.
C8_UnresolvedExactly ==
    LET varLookup == buildVarLookup(css)
        light == parseCssBlock(BlockMatch(css, <<":", "root">>).content, varLookup)
        dark  == darkStylesOf(BlockMatch(css, <<".", "dark">>), light, varLookup)
        U     == ReferencesIn(light.props, <<>>) \o ReferencesIn(dark.props, <<" (dark)">>)
    IN  (/\ pc = "parsed" /\ sheet.hasRoot /\ DeclaresRequired(sheet.root)
         /\ light.kind = "return" /\ dark.kind = "return") =>
            /\ IsValid(pres) <=> U = <<>>
            /\ U # <<>> =>
                 /\ IsInvalid(pres)
                 /\ StartsWith(ErrorOf(pres),
                               <<"Unresolved var() references: ">> \o Join(FirstN(U, 3), <<", ">>))
                 /\ Contains(ErrorOf(pres), <<" and ", ToString(Len(U) - 3), " more">>)
                      <=> Len(U) > 3
            /\ IsValid(pres) =>
                 /\ \A i \in 1..Len(LightOf(pres).e) : ~IsReference(LightOf(pres).e[i].v.s)
                 /\ \A i \in 1..Len(DarkOf(pres).e) : ~IsReference(DarkOf(pres).e[i].v.s)

\* C9: resolveVar returns on every lookup table, also when the references
\* of the value form a cycle: then it returns a value that is still a
\* reference.
C9_TerminatesOnCycles ==
    (pc # "ready" /\ ~ChainEnds(lookup, value, Len(lookup))) =>
        /\ pc \in {"resolved", "again"}
        /\ r1.kind = "return"
        /\ IsReference(r1.val)

\* C10: on an acyclic lookup table resolveVar(resolveVar(v, L), L) equals
\* resolveVar(v, L); the recursion stays within the stack.
C10_Idempotent ==
    Acyclic(lookup) =>
        /\ pc # "diverged"
        /\ pc = "thrown" => r1 = Thrown(NotAFunctionMsg)
        /\ pc = "again" => (r1.kind = "return" /\ r2 = r1)

C10_Witness ==
    /\ pc = "again" /\ Acyclic(lookup)
    /\ value = Ref(<<"a">>)
    /\ HasOwn(lookup, <<"a">>) /\ Get(lookup, <<"a">>) = Ref(<<"b">>)
    /\ HasOwn(lookup, <<"b">>) /\ Get(lookup, <<"b">>) = Ref(<<"c">>)
    /\ r1 = Returned(<<"red">>)
    /\ r2 = r1

\* The declarations of the stylesheet in the order of its text.
TextDecls(sh) ==
    LET root == IF sh.hasRoot THEN sh.root ELSE <<>>
        dark == IF sh.hasDark THEN sh.dark ELSE <<>>
    IN  IF sh.darkFirst THEN dark \o root ELSE root \o dark

IsFirstDeclaration(ds, i) == \A j \in 1..(i - 1) : ds[j].n # ds[i].n

\* C11: buildVarLookup maps each variable name declared anywhere in the text
\* to the trimmed value of its first declaration in text order; a later
\* declaration of the name, in the same or a later block, changes nothing.
C11_FirstDeclarationWins ==
    pc # "edit" =>
        LET ds == TextDecls(sheet)
        IN  /\ Keys(lookup) = {ds[i].n : i \in 1..Len(ds)}
            /\ \A i \in 1..Len(ds) :
                  IsFirstDeclaration(ds, i) =>
                      /\ HasOwn(lookup, ds[i].n)
                      /\ Get(lookup, ds[i].n) = Trim(ds[i].v)

\* The declarations of the block parseCssBlock was called on.
BlockDecls == IF r2 = RootSelector THEN sheet.root ELSE sheet.dark

Dropped(name) ==
    \/ StartsWith(name, <<"color", "-">>)
    \/ StartsWith(name, <<"radius", "-">>)
    \/ name \in {<<"tracking", "-", w>> : w \in {"tighter", "tight", "wide", "wider", "widest"}}

StoredUnder(name) ==
    CASE name = <<"shadow", "-", "x">> -> <<"shadow", "-", "offset", "-", "x">>
      [] name = <<"shadow", "-", "y">> -> <<"shadow", "-", "offset", "-", "y">>
      [] name = <<"tracking", "-", "normal">> -> <<"letter", "-", "spacing">>
      [] OTHER -> name

\* No later declaration of the block is stored under the same name.
IsLastStored(ds, i) ==
    \A j \in (i + 1)..Len(ds) : Dropped(ds[j].n) \/ StoredUnder(ds[j].n) # StoredUnder(ds[i].n)

\* C12: the output of parseCssBlock holds no property declared under a name
\* that begins with color- or radius- or is one of the five tracking scale
\* names; shadow-x, shadow-y and tracking-normal are stored under
\* shadow-offset-x, shadow-offset-y and letter-spacing; every other declared
\* name is stored under its own name; each with its trimmed, resolved value.
C12_BlockNames ==
    pc = "block" =>
        LET ds == BlockDecls
            kept == {i \in 1..Len(ds) : ~Dropped(ds[i].n)}
        IN  /\ r1.kind = "return"
            /\ \A k \in Keys(r1.props) : ~Dropped(k)
            /\ Keys(r1.props) = {StoredUnder(ds[i].n) : i \in kept}
            /\ \A i \in kept :
                  IsLastStored(ds, i) =>
                      Returned(Get(r1.props, StoredUnder(ds[i].n)))
                         = resolveVar(Trim(ds[i].v), lookup)

C12_Witness ==
    /\ pc = "block" /\ r2 = RootSelector
    /\ \E i \in 1..Len(sheet.root) : sheet.root[i].n = <<"color", "-", "background">>
    /\ \E i \in 1..Len(sheet.root) : sheet.root[i] = Decl(<<"a">>, <<"red", " ">>)
    /\ AsMap(r1.props) =
         [k \in {<<"background">>, <<"radius">>, <<"shadow", "-", "offset", "-", "x">>,
                 <<"shadow", "-", "offset", "-", "y">>, <<"letter", "-", "spacing">>, <<"a">>}
            |-> CASE k = <<"background">> -> White
                  [] k = <<"radius">> -> <<"0.5rem">>
                  [] k = <<"shadow", "-", "offset", "-", "x">> -> <<"0">>
                  [] k = <<"shadow", "-", "offset", "-", "y">> -> <<"1">>
                  [] k = <<"letter", "-", "spacing">> -> <<"0.5rem">>
                  [] OTHER -> <<"red">>]

\* The internal names and the external names they are declared under.
InternalOnly ==
    {<< <<"letter", "-", "spacing">>, <<"tracking", "-", "normal">> >>,
     << <<"shadow", "-", "offset", "-", "x">>, <<"shadow", "-", "x">> >>,
     << <<"shadow", "-", "offset", "-", "y">>, <<"shadow", "-", "y">> >>}

DeclaresName(text, name) == Contains(text, <<"-", "-">> \o name \o <<":">>)
DeclaresValue(text, name, val) ==
    Contains(text, <<"-", "-">> \o name \o <<":", " ">> \o val \o <<";">>)

\* In the text of a serializer no property is declared under an internal
\* name, and a property stored under one is declared under its external name.
ExternalNamesOnly(text, theme) ==
    \A p \in InternalOnly :
        /\ ~DeclaresName(text, p[1])
        /\ \A m \in ModeNames :
              Lookup(StylesOf(theme, m), p[1]).t = "string" =>
                  DeclaresValue(text, p[2], Lookup(StylesOf(theme, m), p[1]).s)

\* C13: the stylesheet text toCss and toTailwindConfig produce never declares
\* --letter-spacing, --shadow-offset-x or --shadow-offset-y; a property
\* stored under one of these names is declared as --tracking-normal,
\* --shadow-x or --shadow-y.
C13_InternalNamesNeverSerialized ==
    pc \in {"css", "tailwind"} => ExternalNamesOnly(css, data)

\* The lines of a text: what stands between its newlines.
LinesOf(text) ==
    LET breaks == {0, Len(text) + 1} \cup {j \in 1..Len(text) : text[j] = "\n"}
        start == SelectSeq([i \in 1..(Len(text) + 2) |-> i - 1], LAMBDA b : b \in breaks)
    IN  SubSeq([n \in 1..(Len(start) - 1) |->
                  SubSeq(text, start[n] + 1, start[n + 1] - 1)],
               1, Len(start) - 1)

\* The first line equal to l at or after index i, 0 when there is none.
LineAt(ls, l, i) ==
    LET S == {j \in i..Len(ls) : ls[j] = l}
    IN  IF S = {} THEN 0 ELSE Min(S)

\* The name a property is declared under.
ExternalName(k) ==
    IF \E p \in InternalOnly : p[1] = k
    THEN (CHOOSE p \in InternalOnly : p[1] = k)[2]
    ELSE k

\* The names of ks, each at the place of its first occurrence.
FirstOccurrences(ks, seen) ==
    Filter(ks, [i \in 1..Len(ks) |->
                  ks[i] \notin seen /\ \A j \in 1..(i - 1) : ks[j] # ks[i]])

KeysOf(es) == [i \in 1..Len(es) |-> es[i].k]

RECURSIVE Ascending(_)
\* A set of index names as a sequence in ascending order.
Ascending(S) ==
    IF S = {} THEN <<>>
    ELSE LET least == CHOOSE k \in S : \A other \in S : KeyIndex(k) <= KeyIndex(other)
         IN  <<least>> \o Ascending(S \ {least})

\* The order in which an engine enumerates properties created in the order
\* ks: the index names in ascending order, then the others as created.
EnumerationOrder(ks) ==
    Ascending({ks[i] : i \in {j \in 1..Len(ks) : IsIndexKey(ks[j])}})
    \o Filter(ks, [i \in 1..Len(ks) |-> ~IsIndexKey(ks[i])])

\* The order in which createThemeToken created the properties of a mode:
\* the defaults, then the overrides as the spread reads them; a dark mode
\* that was left out is created as the copy reads the light mode.
LightCreated ==
    FirstOccurrences(CoreKeys \o EnumerationOrder(FirstOccurrences(KeysOf(sheet.light), {})), {})
DarkCreated ==
    IF sheet.hasDark
    THEN FirstOccurrences(CoreKeys \o EnumerationOrder(FirstOccurrences(KeysOf(sheet.dark), {})), {})
    ELSE EnumerationOrder(LightCreated)
Created(m) == IF m = <<"light">> THEN LightCreated ELSE DarkCreated

\* The declaration lines of a block for the properties ks of a mode, one per
\* property whose value is defined, in the order of ks.
DeclarationLines(mode, ks) ==
    LET defined == Filter(ks, [i \in 1..Len(ks) |-> Lookup(mode, ks[i]).t # "undefined"])
    IN  [i \in 1..Len(defined) |->
           <<" ", " ", "-", "-">> \o ExternalName(defined[i]) \o <<":", " ">>
           \o Lookup(mode, defined[i]).s \o <<";">>]

\* The lines of the @layer base block, its rules verbatim.
LayerBlockLines(layer) ==
    << <<>>, <<"@", "layer", " ", "base", " ", "{">> >>
    \o Concat([i \in 1..Len(layer.e) |->
                 << <<" ", " ">> \o layer.e[i].k \o <<" ", "{">> >>
                 \o [j \in 1..Len(layer.e[i].v.e) |->
                       <<" ", " ", " ", " ">> \o layer.e[i].v.e[j].k \o <<":", " ">>
                       \o layer.e[i].v.e[j].v.s \o <<";">>]
                 \o << <<" ", " ", "}">> >>])
    \o << <<"}">> >>

\* The text of toCss read line by line: the :root block first, then the
\* .dark block, each with the declarations of its mode in the given order,
\* then the @layer base block exactly when the theme has one.
CssTextIs(text, theme, lightOrder, darkOrder) ==
    LET ls == LinesOf(text)
        rootEnd == LineAt(ls, <<"}">>, 1)
        darkAt == LineAt(ls, <<".", "dark", " ", "{">>, 1)
        darkEnd == LineAt(ls, <<"}">>, darkAt)
    IN  /\ ls[1] = <<":", "root", " ", "{">>
        /\ rootEnd > 1
        /\ darkAt > rootEnd
        /\ darkEnd > darkAt
        /\ SubSeq(ls, 2, rootEnd - 1) = DeclarationLines(StylesOf(theme, <<"light">>), lightOrder)
        /\ SubSeq(ls, darkAt + 1, darkEnd - 1)
             = DeclarationLines(StylesOf(theme, <<"dark">>), darkOrder)
        /\ IF IsObject(LayerBaseOf(theme))
           THEN SubSeq(ls, darkEnd + 1, Len(ls)) = LayerBlockLines(LayerBaseOf(theme))
           ELSE darkEnd = Len(ls)

\* C14 as stated: toCss emits the :root block before the .dark block, each
\* with one declaration per defined property of its mode, value unchanged,
\* in the insertion order of the mode's property map; the @layer base block
\* follows exactly when d.css["@layer base"] is present, verbatim.
C14_InsertionOrder ==
    pc = "css" => CssTextIs(css, data, Created(<<"light">>), Created(<<"dark">>))

\* C14, amended: as stated, but each block's declarations are in the order
\* in which Object.entries enumerates the mode's properties: names that are
\* array indices first, in ascending order, then the other names in
\* insertion order.
C14_EnumerationOrder ==
    pc = "css" =>
        CssTextIs(css, data, EnumerationOrder(Created(<<"light">>)),
                  EnumerationOrder(Created(<<"dark">>)))

C14_Witness ==
    /\ pc = "css"
    /\ IsObject(LayerBaseOf(data))
    /\ Lookup(StylesOf(data, <<"light">>), <<"1">>) = JStr(<<"red">>)
    /\ Lookup(StylesOf(data, <<"light">>), Chart1) = JStr(<<"blue">>)
    /\ LinesOf(css)[2] = <<" ", " ", "-", "-", "1", ":", " ", "red", ";">>
    /\ LinesOf(css)[3] = <<" ", " ", "-", "-", "background", ":", " ", "oklch(1 0 0)", ";">>
    /\ Contains(css, <<" ", " ", "-", "-", "tracking", "-", "normal", ":", " ", "0.5rem", ";">>)
    /\ Contains(css, <<"@", "layer", " ", "base", " ", "{", "\n", " ", " ", "body", " ", "{">>)

\* The declarations of the body rule that a stylesheet was written with.
BodyDeclarations == JObj(<<Entry(<<"letter", "-", "spacing">>, JStr(<<"0.5rem">>))>>)

\* C15: a successful parse of a stylesheet with a body rule, wrapped in
\* @layer base or at the top level, returns theme.css["@layer base"].body
\* equal to the rule's declarations, those of the wrapped rule when both
\* forms are present; without a body rule theme.css is absent.
C15_BodyRuleExtracted ==
    (pc = "parsed" /\ IsValid(pres)) =>
        IF sheet.body = "none"
        THEN ~HasOwn(ThemeOf(pres).e, <<"css">>)
        ELSE Lookup(LayerBaseOf(ThemeOf(pres)), <<"body">>) = BodyDeclarations

\* What the code extracts: the body rule of the top-level form alone.
BodyRuleTopLevelOnly ==
    (pc = "parsed" /\ IsValid(pres)) =>
        IF sheet.body = "top"
        THEN Lookup(LayerBaseOf(ThemeOf(pres)), <<"body">>) = BodyDeclarations
        ELSE ~HasOwn(ThemeOf(pres).e, <<"css">>)

\* The 20 required property names.
RequiredNames == {CoreKeys[i] : i \in 1..Len(CoreKeys)}

\* Whether the overrides es supply the property k, and the value they
\* supply: the one written last.
Supplies(es, k) == \E i \in 1..Len(es) : es[i].k = k
Supplied(es, k) == es[Max({i \in 1..Len(es) : es[i].k = k})].v

\* The defaults overridden by es: a mode that has exactly the default names
\* and the names of es, each with the override's value when es supplies it
\* and with the default otherwise.
IsMerged(mode, es) ==
    /\ IsObject(mode)
    /\ Keys(mode.e) = RequiredNames \cup Keys(es)
    /\ \A k \in Keys(mode.e) :
          Lookup(mode, k) = IF Supplies(es, k) THEN Supplied(es, k)
                            ELSE JStr(<<DefaultValues[CHOOSE i \in 1..Len(CoreKeys) : CoreKeys[i] = k]>>)

\* C16: createThemeToken(name, light, dark?) merges the defaults first and
\* the overrides second, per mode; an omitted dark makes styles.dark equal
\* to the merged styles.light; a given dark makes styles.dark the defaults
\* overridden by dark only; both modes contain the 20 required names.
C16_DefaultsThenOverrides ==
    pc = "created" =>
        /\ IsMerged(StylesOf(data, <<"light">>), sheet.light)
        /\ IF sheet.hasDark
           THEN IsMerged(StylesOf(data, <<"dark">>), sheet.dark)
           ELSE StylesOf(data, <<"dark">>) = StylesOf(data, <<"light">>)
        /\ \A m \in {<<"light">>, <<"dark">>} :
              RequiredNames \subseteq Keys(StylesOf(data, m).e)

C16_Witness ==
    /\ pc = "created"
    /\ sheet.hasDark
    /\ Supplies(sheet.light, <<"radius">>) /\ ~Supplies(sheet.dark, <<"radius">>)
    /\ Lookup(StylesOf(data, <<"light">>), <<"radius">>) = JStr(<<"red">>)
    /\ Lookup(StylesOf(data, <<"dark">>), <<"radius">>) = JStr(<<"0.625rem">>)
    /\ Lookup(StylesOf(data, <<"dark">>), <<"primary">>) = JStr(<<"blue">>)
    /\ Lookup(StylesOf(data, <<"light">>), <<"primary">>) = JStr(<<"red">>)

\* A mode has a value for k that is present and not the empty string.
PresentNonEmpty(mode, k) == Lookup(mode, k).t = "string" /\ Lookup(mode, k).s # <<>>

\* The light value when present and non-empty, else the dark one, else the
\* fixed default.
LightThenDarkThenDefault(theme, k, default) ==
    IF PresentNonEmpty(StylesOf(theme, <<"light">>), k)
    THEN Lookup(StylesOf(theme, <<"light">>), k)
    ELSE IF PresentNonEmpty(StylesOf(theme, <<"dark">>), k)
    THEN Lookup(StylesOf(theme, <<"dark">>), k)
    ELSE JStr(<<default>>)

\* The shared group of a registry document.
SharedGroup(registry) == Lookup(Lookup(registry, <<"cssVars">>), <<"theme">>)

\* C17: toShadcnRegistry(d).cssVars.theme takes font-sans, font-mono and
\* radius from the light mode when present and non-empty there, else from
\* the dark mode, else the defaults "Inter, sans-serif", "monospace" and
\* "0.5rem".
C17_SharedGroupFallback ==
    pc = "registry" =>
        /\ Lookup(SharedGroup(pres), <<"font", "-", "sans">>)
             = LightThenDarkThenDefault(data, <<"font", "-", "sans">>, "Inter, sans-serif")
        /\ Lookup(SharedGroup(pres), <<"font", "-", "mono">>)
             = LightThenDarkThenDefault(data, <<"font", "-", "mono">>, "monospace")
        /\ Lookup(SharedGroup(pres), <<"radius">>)
             = LightThenDarkThenDefault(data, <<"radius">>, "0.5rem")

C17_Witness ==
    /\ pc = "registry"
    /\ Lookup(StylesOf(data, <<"light">>), <<"radius">>) = JStr(<<>>)
    /\ Lookup(StylesOf(data, <<"dark">>), <<"radius">>) = JStr(<<"0.625rem">>)
    /\ Lookup(SharedGroup(pres), <<"radius">>) = JStr(<<"0.625rem">>)
    /\ ~HasOwn(StylesOf(data, <<"light">>).e, <<"font", "-", "sans">>)
    /\ ~HasOwn(StylesOf(data, <<"dark">>).e, <<"font", "-", "sans">>)
    /\ Lookup(SharedGroup(pres), <<"font", "-", "sans">>) = JStr(<<"Inter, sans-serif">>)

\* A theme without radius in either mode gets the default radius.
RadiusDefaulted ==
    /\ pc = "registry"
    /\ ~PresentNonEmpty(StylesOf(data, <<"light">>), <<"radius">>)
    /\ ~PresentNonEmpty(StylesOf(data, <<"dark">>), <<"radius">>)
    /\ Lookup(SharedGroup(pres), <<"radius">>) = JStr(<<"0.5rem">>)

\* The places of the letters and digits of a name, in ascending order.
AlnumPlaces(name) ==
    LET S == {i \in 1..Len(name) : IsLowerAlnum(ToLower(name[i]))}
    IN  [n \in 1..Cardinality(S) |->
           CHOOSE p \in S : Cardinality({q \in S : q < p}) = n - 1]

\* The name lowercased, every maximal run of characters outside [a-z0-9]
\* replaced by one hyphen, leading and trailing hyphens removed: its
\* letters and digits, with a hyphen between two of them exactly when
\* something stood between them.
Sanitized(name) ==
    LET ps == AlnumPlaces(name)
    IN  Concat([n \in 1..Len(ps) |->
                  (IF n > 1 /\ ps[n] > ps[n - 1] + 1 THEN <<"-">> ELSE <<>>)
                  \o <<ToLower(name[ps[n]])>>])

\* C18: toShadcnRegistry(d).name is the sanitized theme name; it contains
\* only characters of [a-z0-9-], neither starts nor ends with a hyphen and
\* has no two adjacent hyphens; sanitizing it again returns it unchanged.
C18_SanitizedName ==
    pc \in {"named", "renamed"} =>
        /\ r1 = Sanitized(value)
        /\ \A i \in 1..Len(r1) : IsLowerAlnum(r1[i]) \/ r1[i] = "-"
        /\ r1 # <<>> => (r1[1] # "-" /\ r1[Len(r1)] # "-")
        /\ \A i \in 1..(Len(r1) - 1) : ~(r1[i] = "-" /\ r1[i + 1] = "-")
        /\ pc = "renamed" => r2 = r1

C18_Witness ==
    /\ pc = "renamed"
    /\ value = <<" ", "T", "_", "1">>
    /\ r1 = <<"t", "-", "1">>
    /\ r2 = r1

\* The loads that a call started: each starts with one fetch.
FetchesOf(c) == {p \in 1..Len(promises) : promises[p].by = c}

\* C19: whatever the interleaving of the calls of loadFontByOrigin and of
\* loadPatternByOrigin, at most one load of an origin is in flight at any
\* time; a call that arrives while a load of its origin is in flight
\* returns that load's promise and fetches nothing; a call that arrives
\* when its origin is cached returns the cached value and fetches nothing.
C19_OneLoadPerOrigin ==
    /\ \A kind \in {"font", "pattern"}, origin \in Origins :
          Cardinality(LoadsInFlight(kind, origin)) <= 1
    /\ \A c \in 1..Len(calls) :
          /\ calls[c].inFlight # {} =>
                /\ calls[c].promise \in calls[c].inFlight
                /\ FetchesOf(c) = {}
          /\ calls[c].cached =>
                /\ FetchesOf(c) = {}
                /\ calls[c].promise = 0
                /\ calls[c].value \in DataUrls \cup {generateFontFamilyName(calls[c].origin)}

C19_Witness ==
    /\ Len(calls) = 3
    /\ \A c \in 1..3 : calls[c].kind = "font" /\ calls[c].origin = calls[1].origin
    /\ FetchesOf(1) = {1}
    /\ calls[2].inFlight = {1} /\ calls[2].promise = 1
    /\ promises[1].at = "fulfilled"
    /\ calls[3].cached /\ calls[3].value = promises[1].value
    /\ Len(promises) = 1

\* The body of a response decodes to a document that validateThemeToken
\* accepts.
BodyIsATheme(response) ==
    /\ JsonParse(response.body).ok
    /\ Truthy(JsonParse(response.body).val)
    /\ IsValid(validateThemeToken(JsonParse(response.body).val))

\* C20: fetchThemeByOrigin(origin) never rejects; it resolves to null when
\* the response is not ok, when the body is empty or rejected by
\* validateThemeToken, and when fetching or decoding throws; otherwise it
\* resolves to {theme, outpoint, origin} with the validated document and
\* outpoint = origin = the argument.
C20_NullOrPublished ==
    pc = "settled" =>
        /\ rres.state = "fulfilled"
        /\ IF /\ sheet.network = "up"
              /\ sheet.status \in 200..299
              /\ sheet.stream = "ok"
              /\ BodyIsATheme(sheet)
           THEN /\ Keys(rres.val.e) = {<<"theme">>, <<"outpoint">>, <<"origin">>}
                /\ Prop(rres.val, "theme")
                     = ThemeOf(validateThemeToken(JsonParse(sheet.body).val))
                /\ Prop(rres.val, "outpoint") = JStr(value)
                /\ Prop(rres.val, "origin") = JStr(value)
           ELSE rres.val = JNull

C20_Witness ==
    /\ pc = "settled"
    /\ sheet.body = toJson(JObj(Put(PlainDoc.e, <<"extra">>, JNum(1))), FALSE)
    /\ rres.state = "fulfilled"
    /\ rres.val.t = "object"
    /\ Prop(Prop(rres.val, "theme"), "name") = JStr(<<"Plain">>)
    /\ ~HasProp(Prop(rres.val, "theme"), "extra")
    /\ Prop(rres.val, "origin") = JStr(value)

\* A body that decodes to a value validateThemeToken rejects gives null.
RejectedBodyGivesNull ==
    /\ pc = "settled"
    /\ vres # NoResult /\ IsInvalid(vres)
    /\ rres = Fulfilled(JNull)

\* The custom properties that applyTheme set for a mode of a theme: those
\* of its properties with a non-empty string value.
PropertiesSet(styles) ==
    {<<"-", "-">> \o ExternalName(styles.e[i].k) :
        i \in {j \in 1..Len(styles.e) : styles.e[j].v.t = "string" /\ styles.e[j].v.s # <<>>}}

\* C21: after applyTheme(styles) on the document root and clearTheme()
\* without keys, no custom property that applyTheme set remains on the
\* root, whatever additional property names the styles carry.
C21_ClearRemovesAll ==
    pc = "cleared" => PropertiesSet(StylesOf(data, value)) \cap DOMAIN rootStyle = {}

\* Every property that applyTheme was given is on the root after it.
AppliedAll ==
    /\ pc = "applied"
    /\ PropertiesSet(StylesOf(data, value)) = DOMAIN rootStyle
    /\ <<"-", "-", "brand">> \in DOMAIN rootStyle

\* The loadTheme calls that have started and not settled.
LoadsUnsettled == {l \in 1..Len(loads) : loads[l].at # "settled"}

\* C22: isLoading is true at every moment at which at least one loadTheme
\* call has started and not yet settled, also when several calls overlap,
\* and false when none is in flight.
C22_IsLoadingWhileInFlight == isLoading <=> LoadsUnsettled # {}

\* C23: after resetTheme() has returned, activeTheme, activeOrigin and
\* error are null and the storage key is removed, and they stay so until
\* loadTheme is called again, also when a loadTheme call that started
\* before the reset settles after it.
C23_ResetStays ==
    wasReset =>
        /\ activeTheme = JNull
        /\ activeOrigin = JNull
        /\ error = JNull
        /\ localStorage = JNull

\* The declarations of a name in a block, and the one literal value a
\* block declares it with.
DeclsOf(ds, x) == {i \in 1..Len(ds) : ds[i].n = x}
DeclaresLiteral(ds, x, v) ==
    /\ v \in Literals
    /\ Cardinality(DeclsOf(ds, x)) = 1
    /\ \A i \in DeclsOf(ds, x) : ds[i].v = v

\* The names a block gives the value var(--x), each declared once.
Referring(ds, x) ==
    {ds[i].n : i \in {j \in 1..Len(ds) : ds[j].v = Ref(x) /\ Cardinality(DeclsOf(ds, ds[j].n)) = 1}}

\* A name that parseCssBlock stores under itself.
IsPlainName(x) == ~Dropped(x) /\ StoredUnder(x) = x /\ \A y \in {<<"shadow", "-", "x">>, <<"shadow", "-", "y">>, <<"tracking", "-", "normal">>} : StoredUnder(y) # x

\* With x declared as v1 in :root and v2 in .dark, the modes hold v1 and
\* v2 for x, and every property declared as var(--x) holds ref.
CrossModeLaw(theme, x, v1, v2, ref) ==
    /\ Lookup(ModeIn(theme, <<"light">>), x) = JStr(v1)
    /\ Lookup(ModeIn(theme, <<"dark">>), x) = JStr(v2)
    /\ \A n \in Referring(sheet.root, x) :
          IsPlainName(n) => Lookup(ModeIn(theme, <<"light">>), n) = JStr(ref)
    /\ \A n \in Referring(sheet.dark, x) :
          IsPlainName(n) => Lookup(ModeIn(theme, <<"dark">>), n) = JStr(ref)

DeclaredNames == {TextDecls(sheet)[i].n : i \in 1..Len(TextDecls(sheet))}

DarkFirstResolvesToDark ==
    /\ pc = "parsed" /\ IsValid(pres)
    /\ sheet.darkFirst
    /\ DeclaresLiteral(sheet.root, <<"background">>, White)
    /\ DeclaresLiteral(sheet.dark, <<"background">>, Black)
    /\ Lookup(ModeIn(ThemeOf(pres), <<"light">>), <<"a">>) = JStr(Black)


\* The values met by following the references from v through the table: v,
\* the value the table gives the name v refers to, and so on.
ChainOf(table, v) ==
    LET Step(S) ==
            S \cup {Get(table, RefName(x)) :
                        x \in {y \in S : VarMatch(y) /\ HasOwn(table, RefName(y))}}
        RECURSIVE Follow(_, _)
        Follow(S, n) == IF n = 0 THEN S ELSE Follow(Step(S), n - 1)
    IN  Follow({v}, Len(table) + 1)

\* The bare references of the chain of v to a name that is no built-in and
\* that the table does not declare.
UnresolvedEnds(table, v) ==
    {x \in ChainOf(table, v) :
        /\ VarMatch(x)
        /\ RefName(x) \notin {<<"color", "-", "white">>, <<"color", "-", "black">>}
        /\ ~HasOwn(table, RefName(x))}

\* C25: resolveVar(v, L) returns the original string v unchanged when v is
\* a bare reference whose resolution reaches a name that is not in L,
\* directly or after following a chain of references, and when v is not
\* exactly one bare reference.
C25_ReturnsOriginal ==
    (pc # "ready" /\ (UnresolvedEnds(lookup, value) # {} \/ ~VarMatch(value))) =>
        r1 = Returned(value)

\* C25, as the code has it: the call returns the reference the chain ends
\* at, the one to the name L does not declare, which is v itself only when
\* the chain has no link; a name inherited from Object.prototype is found
\* by the lookup and makes the call throw; a value that is not exactly one
\* bare reference is returned unchanged.
C25_ReturnsLastReference ==
    pc # "ready" =>
        /\ \A x \in UnresolvedEnds(lookup, value) :
               r1 = IF RefName(x) \in ObjectPrototypeNames
                    THEN Thrown(NotAFunctionMsg) ELSE Returned(x)
        /\ ~VarMatch(value) => r1 = Returned(value)

C25_Witness ==
    /\ pc = "resolved"
    /\ value = Ref(<<"a">>)
    /\ HasOwn(lookup, <<"a">>) /\ Get(lookup, <<"a">>) = Ref(<<"b">>)
    /\ HasOwn(lookup, <<"b">>) /\ Get(lookup, <<"b">>) = Ref(<<"nope">>)
    /\ UnresolvedEnds(lookup, value) = {Ref(<<"nope">>)}
    /\ r1 = Returned(Ref(<<"nope">>))

\* A value with a fallback clause comes back as it went in.
FallbackUnchanged ==
    /\ pc = "resolved"
    /\ value = <<"var", "(", "-", "-", "a", ",", " 1px", ")">>
    /\ HasOwn(lookup, <<"a">>)
    /\ r1 = Returned(value)

MetadataOf(r) == Prop(r, "metadata")
Count(r, field) == Lookup(MetadataOf(r), field).n

\* The names under which the declarations ds of a block are stored.
StoredNames(ds) ==
    {StoredUnder(ds[i].n) : i \in {j \in 1..Len(ds) : ~Dropped(ds[j].n)}}

\* C26: on every successful parseCss the metadata counts the properties of
\* styles.light and of styles.dark, totalPropertyCount is the number of
\* distinct names of the two modes together (at least the larger count, at
\* most their sum), hasLightMode is true, and hasDarkMode is true exactly
\* when the text has a .dark block.
C26_MetadataCounts ==
    (pc = "parsed" /\ IsValid(pres)) =>
        LET light == LightOf(pres).e
            dark  == DarkOf(pres).e
            total == Count(pres, <<"totalPropertyCount">>)
        IN  /\ Lookup(MetadataOf(pres), <<"lightPropertyCount">>) = JNum(Len(light))
            /\ Lookup(MetadataOf(pres), <<"darkPropertyCount">>) = JNum(Len(dark))
            /\ Len(light) = Cardinality(StoredNames(sheet.root))
            /\ sheet.hasDark => Len(dark) = Cardinality(StoredNames(sheet.dark))
            /\ Lookup(MetadataOf(pres), <<"totalPropertyCount">>)
                 = JNum(Cardinality(Keys(light) \cup Keys(dark)))
            /\ total >= Max({Len(light), Len(dark)})
            /\ total <= Len(light) + Len(dark)
            /\ Lookup(MetadataOf(pres), <<"hasLightMode">>) = JBool(TRUE)
            /\ Lookup(MetadataOf(pres), <<"hasDarkMode">>) = JBool(sheet.hasDark)

C26_Witness ==
    /\ pc = "parsed" /\ IsValid(pres)
    /\ sheet.hasDark
    /\ Lookup(MetadataOf(pres), <<"hasDarkMode">>) = JBool(TRUE)
    /\ Count(pres, <<"lightPropertyCount">>) = 5
    /\ Count(pres, <<"darkPropertyCount">>) = 4
    /\ Count(pres, <<"totalPropertyCount">>) = 5

\* Without a .dark block the dark mode is the copy of the light mode and
\* the flag is false.
NoDarkBlockCounted ==
    /\ pc = "parsed" /\ IsValid(pres)
    /\ ~sheet.hasDark
    /\ Lookup(MetadataOf(pres), <<"hasDarkMode">>) = JBool(FALSE)
    /\ Count(pres, <<"darkPropertyCount">>) = Count(pres, <<"lightPropertyCount">>)

\* C27: generateFontFamilyName gives each origin a family name of its own:
\* two different origins, such as <txid>_0 and <txid>_1, are never
\* registered under the same family name.
C27_UniqueFamilyNames ==
    \A o1 \in DOMAIN fontCache, o2 \in DOMAIN fontCache :
        o1 # o2 => fontCache[o1].familyName # fontCache[o2].familyName

\* The table of loading promises of a kind of asset, and its cache.
LoadingPromises(kind) ==
    IF kind = "font" THEN fontLoadingPromises ELSE patternLoadingPromises
CacheOf(kind) == IF kind = "font" THEN fontCache ELSE patternCache

\* C28: once a load has settled, by success or by failure (also a failure
\* raised before the first await), the table of loading promises holds no
\* entry for it; a failed load leaves no cache entry, and the next call
\* for its origin starts a new fetch: no call returns a promise that had
\* settled before the call arrived.
C28_SettledLoadsLeaveTheTable ==
    /\ \A kind \in {"font", "pattern"} :
          /\ \A origin \in DOMAIN LoadingPromises(kind) :
                ~Settled(promises[LoadingPromises(kind)[origin]])
          /\ \A origin \in DOMAIN CacheOf(kind) :
                \E p \in 1..Len(promises) :
                    /\ promises[p].kind = kind /\ promises[p].origin = origin
                    /\ promises[p].at = "fulfilled"
    /\ \A c \in 1..Len(calls) :
          calls[c].promise # 0 =>
              \/ calls[c].promise \in FetchesOf(c)
              \/ calls[c].promise \in calls[c].inFlight

\* A load that failed after its first await is forgotten: the next call
\* for the origin fetches again.
FailedLoadFetchedAgain ==
    /\ Len(calls) >= 2
    /\ calls[2].origin = calls[1].origin /\ calls[2].kind = calls[1].kind
    /\ promises[calls[1].promise].at = "rejected"
    /\ promises[calls[1].promise].value # FetchNotDefinedMsg
    /\ calls[2].promise # calls[1].promise
    /\ calls[2].promise \in FetchesOf(2)

\* A load that failed before its first await stays in the table: the next
\* call for the origin is handed the rejected promise.
StaleFailureReturned ==
    /\ Len(calls) >= 2
    /\ calls[2].origin = calls[1].origin /\ calls[2].kind = calls[1].kind
    /\ promises[calls[1].promise].value = FetchNotDefinedMsg
    /\ calls[2].promise = calls[1].promise
    /\ FetchesOf(2) = {}

\* C29: every theme that parseCss returns with valid: true is a valid
\* theme document: validateThemeToken accepts it, and its light and dark
\* modes hold all 20 required names.
C29_ParsedThemeIsValid ==
    (pc = "parsed" /\ IsValid(pres)) =>
        /\ IsValid(validateThemeToken(ThemeOf(pres)))
        /\ \A k \in RequiredNames :
              /\ HasOwn(LightOf(pres).e, k)
              /\ HasOwn(DarkOf(pres).e, k)

\* A stylesheet with the four names parseCss asks for gives a theme that
\* validateThemeToken rejects.
FourNamesParsedAndRejected ==
    /\ pc = "parsed" /\ IsValid(pres)
    /\ Keys(LightOf(pres).e) = {requiredProps[i] : i \in 1..Len(requiredProps)}
    /\ IsInvalid(validateThemeToken(ThemeOf(pres)))

\* The names a stylesheet declares for an internal name.
ExternalAliases ==
    {<<"shadow", "-", "x">>, <<"shadow", "-", "y">>, <<"tracking", "-", "normal">>}

\* A property that a stylesheet carries through: a lower-case name that is
\* neither filtered nor an external alias, and a value that is trimmed,
\* not empty, free of ';' and '}' and no var() reference.
CarriedThrough(name, val) ==
    /\ name # <<>>
    /\ \A i \in 1..Len(name) : IsNameChar(name[i]) /\ name[i] \notin UpperAtoms
    /\ ~Dropped(name)
    /\ name \notin ExternalAliases
    /\ val.t = "string"
    /\ val.s # <<>>
    /\ Trim(val.s) = val.s
    /\ \A i \in 1..Len(val.s) : val.s[i] \notin {";", "}"}
    /\ ~IsReference([i \in 1..Len(val.s) |-> ToLower(val.s[i])])

RoundTrippable(d) ==
    /\ \A m \in ModeNames :
          \A i \in 1..Len(ModeIn(d, m).e) :
              CarriedThrough(ModeIn(d, m).e[i].k, ModeIn(d, m).e[i].v)
    /\ IsValid(validateThemeToken(d))

\* Two modes with the same names and the same values.
SameStyles(a, b) ==
    /\ Keys(a.e) = Keys(b.e)
    /\ \A k \in Keys(a.e) : Get(a.e, k) = Get(b.e, k)

AliasNotCarriedThrough ==
    /\ pc = "parsed" /\ IsValid(pres)
    /\ HasOwn(ModeIn(data, <<"light">>).e, <<"tracking", "-", "normal">>)
    /\ ~HasOwn(LightOf(pres).e, <<"tracking", "-", "normal">>)
====
